---- MODULE Spec2Model ----
(***************************************************************************)
(* Thread reconstruction and record reconciliation of the WhatsApp webhook *)
(* (ozlav/whatsapp_hook): reply processing against the work-order sheet,   *)
(* the record locator, and the thread resolver over the Message table.     *)
(*                                                                         *)
(* Strings are modelled as sequences of tokens, so that concatenation,     *)
(* emptiness and "starts with" are computed and not assumed: "" is << >>.  *)
(***************************************************************************)
EXTENDS Integers, Sequences, FiniteSets, TLC

VARIABLES
    sheet,          \* the work-order sheet: rows (1-based row number) of cells
    auditLog,       \* the AuditLog sheet: appended rows, in insertion order
    pc,             \* per reply task: the await point it is at
    workId,         \* per reply task: analysis.work_id
    sheetData,      \* per reply task: the SheetRowData read (or Null)
    replyAnalysis,  \* per reply task: the ReplyAnalysis of the extraction step
    columnUpdates,  \* per reply task: the Record<number, any> handed to the write
    result,         \* per reply task: the ProcessingResult returned (or Null)
    calls,          \* history: the collaborator calls made, in order
    uPc,            \* the number of updateSheetRow calls made
    payload,        \* per reply task: the webhook payload it was handed
    fPc,            \* findSheetRowByWorkId: "call" | "scan" | "done"
    fIdCol,         \* findSheetRowByWorkId: the identifier column of the version
    fStore,         \* findSheetRowByWorkId: what values.get holds for the range
    fWorkId,        \* findSheetRowByWorkId: the argument
    fData,          \* findSheetRowByWorkId: the data read
    fReadFailed,    \* findSheetRowByWorkId: getSheetData threw
    fResult,        \* findSheetRowByWorkId: the value returned
    fLog,           \* findSheetRowByWorkId: what it logged, [level, message]
    messages,       \* the EvolutionAPI "Message" table
    tPc,            \* thread resolver: position
    tClient,        \* thread resolver: getPrismaClient() answers a client
    tArgs,          \* thread resolver: [replyMessageId, targetGroupId]
    tWork,          \* thread resolver: working table of the recursive CTE
    tRows,          \* thread resolver: rows accumulated by the recursive CTE
    tBase,          \* thread resolver: baseMessageId
    tResult,        \* thread resolver: the ThreadMessage[] returned
    tLog,           \* thread resolver: the warn and error lines it logged
    cPc,            \* processFirstMessage: position
    cSender,        \* processFirstMessage: senderName
    cOrder,         \* processFirstMessage: the OrderData handed to createNewOrder
    cResult,        \* processFirstMessage: the ProcessingResult returned (or Null)
    kDb,            \* configuration table: the row of the group, with its version
    kCache,         \* configService: the cache entry of the group (or NoEntry)
    kPc,            \* per configuration lookup: position
    kRead,          \* per configuration lookup: what its query answered
    kResult,        \* per configuration lookup: what it returned
    kMinVer,        \* per lookup: the version of the last write completed at its start
    wPc,            \* configuration write: position
    wDone,          \* the version committed by the last completed write
    wCount,         \* the number of configuration writes started
    sPc,            \* processWhatsAppMessage: position
    sPayload,       \* processWhatsAppMessage: the webhook payload
    sResult,        \* processWhatsAppMessage: the result returned (or Null)
    qMessage,       \* quoted-message resolver: the quotedMessage argument
    qOut            \* quoted-message resolver: the histories returned so far

replyVars  == <<sheet, auditLog, pc, workId, sheetData, replyAnalysis,
                columnUpdates, result, calls, uPc, payload>>
locateVars == <<fPc, fIdCol, fStore, fWorkId, fData, fReadFailed, fResult, fLog>>
threadVars == <<messages, tPc, tClient, tArgs, tWork, tRows, tBase, tResult, tLog>>
createVars == <<cPc, cSender, cOrder, cResult>>
configVars == <<kDb, kCache, kPc, kRead, kResult, kMinVer, wPc, wDone, wCount>>
simpleVars == <<sPc, sPayload, sResult>>
fallbackVars == <<qMessage, qOut>>
vars       == <<replyVars, locateVars, threadVars, createVars, configVars,
                simpleVars, fallbackVars>>

\* null for objects, undefined for strings (a string is a sequence of tokens)
Null      == [null |-> TRUE]
Undefined == <<"<undefined>">>

(***************************************************************************)
(* JavaScript helpers                                                      *)
(***************************************************************************)

\* a ?? b
Nullish(a, b) == IF a = Undefined THEN b ELSE a

\* arr[i] for a 0-based index i; undefined outside the array
At(arr, i) == IF (i + 1) \in DOMAIN arr THEN arr[i + 1] ELSE Undefined

\* truthiness of a string: non-empty
Truthy(s) == s # << >> /\ s # Undefined

IsPrefix(a, b) == Len(a) <= Len(b) /\ SubSeq(b, 1, Len(a)) = a

\* s occurs in t as a contiguous run of tokens
Contains(t, s) ==
    \E i \in 0..(Len(t) - Len(s)) : SubSeq(t, i + 1, i + Len(s)) = s

\* Object.assign(target, source): the source's keys win
ObjectAssign(target, source) ==
    [k \in (DOMAIN target) \cup (DOMAIN source) |->
        IF k \in DOMAIN source THEN source[k] ELSE target[k]]

(***************************************************************************)
(* The work-order sheet ("Deposite", range A:N) and the Sheets client      *)
(***************************************************************************)

\* getWorkOrdersHeaders(): the header row of the Deposite sheet
WorkOrdersHeaders ==
    << <<"Full message">>, <<"Time sent">>, <<"from">>, <<"group id">>,
       <<"Job ID">>, <<"customer name">>, <<"address">>, <<"start">>,
       <<"end date">>, <<"deposit">>, <<"total price">>,
       <<"sort of payment">>, <<"notes">>, <<"job status">> >>

NumCols == Len(WorkOrdersHeaders)
Cols    == 0..(NumCols - 1)

\* const HEADER_ROW_INDEX = 1
HEADER_ROW_INDEX == 1

\* the Job ID column searched by findSheetRowByWorkId (column E, index 4)
JobIdCol == 4

\* values.get omits the trailing empty cells of a row
RECURSIVE TrimRow(_)
TrimRow(row) ==
    IF row = << >> THEN << >>
    ELSE IF row[Len(row)] = << >> THEN TrimRow(SubSeq(row, 1, Len(row) - 1))
    ELSE row

\* getSheetData(range): response.data.values || []
GetSheetData(grid) == [i \in DOMAIN grid |-> TrimRow(grid[i])]

\* the header -> 0-based index map derived from the header row read
ColumnIndices(headers) ==
    [h \in {headers[i][1] : i \in DOMAIN headers} |->
        (CHOOSE i \in DOMAIN headers : headers[i][1] = h) - 1]

\* mutant: the scan keeps going and answers the last matching row
RECURSIVE LastMatch(_, _, _, _)
LastMatch(data, col, id, i) ==
    IF i >= Len(data) THEN -1
    ELSE LET later == LastMatch(data, col, id, i + 1) IN
         IF later >= 0 THEN later
         ELSE IF Len(At(data, i)) > col /\ At(At(data, i), col) = id THEN i
         ELSE -1

\* the lowest 0-based index i >= from with data[i][col] = id, or -1
RECURSIVE FirstMatch(_, _, _, _)
FirstMatch(data, col, id, i) ==
    IF i >= Len(data) THEN -1
    ELSE IF At(data, i) # Undefined /\ Len(At(data, i)) > col
            /\ At(At(data, i), col) = id
         THEN i
    ELSE FirstMatch(data, col, id, i + 1)

\* getSheetRowByWorkId(workId), on the data read: the SheetRowData of the
\* first matching row, or null
GetSheetRowByWorkId(data, id) ==
    IF Len(data) = 0 THEN Null
    ELSE LET i == FirstMatch(data, JobIdCol, id, HEADER_ROW_INDEX) IN
         IF i < 0 THEN Null
         ELSE [rowNumber     |-> i + 1,
               headers       |-> data[1],
               rowData       |-> data[i + 1],
               columnIndices |-> ColumnIndices(data[1])]

\* updateSheetRowByIndices(rowNumber, columnUpdates): writes exactly the cells
\* (rowNumber, columnIndex) named by the updates
UpdateSheetRowByIndices(grid, rowNumber, updates) ==
    LET row   == grid[rowNumber]
        width == IF \E c \in DOMAIN updates : c + 1 > Len(row)
                 THEN 1 + CHOOSE c \in DOMAIN updates : \A d \in DOMAIN updates : d <= c
                 ELSE Len(row)
    IN [grid EXCEPT ![rowNumber] =
          [j \in 1..width |->
              IF (j - 1) \in DOMAIN updates THEN updates[j - 1]
              ELSE IF j <= Len(row) THEN row[j] ELSE << >>]]

(***************************************************************************)
(* updateSheetRow: the static column map and the batch update              *)
(***************************************************************************)

\* COLUMN_MAP of the Deposite sheet: field -> column letter
COLUMN_MAP ==
    [work_id |-> "E", customer_name |-> "F", address |-> "G", phone |-> "H",
     job_description |-> "A", total_price |-> "K", deposit |-> "J",
     job_status |-> "N", start_date_time |-> "H", end_date_time |-> "I",
     sort_of_payment |-> "L", notes |-> "M", created_by |-> "C",
     updated_at |-> "B", updated_by |-> "C"]

Alphabet == <<"A", "B", "C", "D", "E", "F", "G", "H", "I", "J", "K", "L",
              "M", "N", "O", "P">>

\* column.charCodeAt(0)
CharCodeAt0(column) == 64 + (CHOOSE i \in DOMAIN Alphabet : Alphabet[i] = column)

\* values of an update: a string, a number, or undefined
StrVal(s) == [t |-> "string", v |-> s]
NumVal(n) == [t |-> "number", v |-> n]
UndefVal  == [t |-> "undefined", v |-> 0]

\* String(value)
StringOf(value) == IF value.t = "number" THEN <<ToString(value.v)>> ELSE value.v

\* the updateCells request of one entry
UpdateCellsRequest(rowNumber, column, value) ==
    [startRowIndex    |-> rowNumber - 1,
     endRowIndex      |-> rowNumber,
     startColumnIndex |-> CharCodeAt0(column) - 65,
     endColumnIndex   |-> CharCodeAt0(column) - 64,
     stringValue      |-> StringOf(value)]

\* mutant: an undefined value is written as an empty cell
RECURSIVE BuildUpdateRequestsBlanksUndefined(_, _)
BuildUpdateRequestsBlanksUndefined(rowNumber, updates) ==
    IF updates = << >> THEN << >>
    ELSE LET field == updates[1][1]
             value == IF updates[1][2] = UndefVal THEN StrVal(<< >>) ELSE updates[1][2]
             rest  == BuildUpdateRequestsBlanksUndefined(rowNumber, Tail(updates))
         IN IF field \in DOMAIN COLUMN_MAP
            THEN <<UpdateCellsRequest(rowNumber, COLUMN_MAP[field], value)>> \o rest
            ELSE rest

\* buildUpdateRequests(rowNumber, updates): updates as Object.entries yields them
RECURSIVE BuildUpdateRequests(_, _)
BuildUpdateRequests(rowNumber, updates) ==
    IF updates = << >> THEN << >>
    ELSE LET field == updates[1][1]
             value == updates[1][2]
             rest  == BuildUpdateRequests(rowNumber, Tail(updates))
         IN IF value # UndefVal /\ field \in DOMAIN COLUMN_MAP
            THEN <<UpdateCellsRequest(rowNumber, COLUMN_MAP[field], value)>> \o rest
            ELSE rest

\* mutant: a request adds its value to what the cell holds
RECURSIVE BatchUpdateAppends(_, _)
BatchUpdateAppends(grid, requests) ==
    IF requests = << >> THEN grid
    ELSE LET r == requests[1]
             applied ==
               [i \in DOMAIN grid |->
                  IF (i - 1) >= r.startRowIndex /\ (i - 1) < r.endRowIndex
                  THEN [j \in DOMAIN grid[i] |->
                          IF (j - 1) = r.startColumnIndex
                            THEN grid[i][j] \o r.stringValue
                          ELSE grid[i][j]]
                  ELSE grid[i]]
         IN BatchUpdateAppends(applied, Tail(requests))

\* spreadsheets.batchUpdate: the requests applied in order; a cell of a
\* request's range that gets no value is cleared
RECURSIVE BatchUpdate(_, _)
BatchUpdate(grid, requests) ==
    IF requests = << >> THEN grid
    ELSE LET r == requests[1]
             applied ==
               [i \in DOMAIN grid |->
                  IF (i - 1) >= r.startRowIndex /\ (i - 1) < r.endRowIndex
                  THEN [j \in DOMAIN grid[i] |->
                          IF (j - 1) = r.startColumnIndex /\ (j - 1) < r.endColumnIndex
                            THEN r.stringValue
                          ELSE IF (j - 1) > r.startColumnIndex /\ (j - 1) < r.endColumnIndex
                            THEN << >>
                          ELSE grid[i][j]]
                  ELSE grid[i]]
         IN BatchUpdate(applied, Tail(requests))

\* the partial OrderData a caller of updateSheetRow may pass
LegacyUpdates ==
    { << >>,
      << <<"job_status", StrVal(<<"completed">>)>>,
         <<"notes", StrVal(<<"Job finished successfully">>)>>,
         <<"updated_at", StrVal(<<"now">>)>>,
         <<"updated_by", StrVal(<<"Jane Smith">>)>> >>,
      << <<"total_price", NumVal(500)>>,
         <<"deposit", UndefVal>>,
         <<"created_at", StrVal(<<"now">>)>> >>,
      << <<"deposit", UndefVal>>,
         <<"created_at", StrVal(<<"now">>)>> >>,
      << <<"created_by", StrVal(<<"John Doe">>)>>,
         <<"updated_by", StrVal(<<"Jane Smith">>)>> >> }

LegacyRows == {2, 3}

\* how many updateSheetRow calls a behaviour makes
MaxUpdates == 2

(***************************************************************************)
(* Reply processing: processReplyMessage                                   *)
(***************************************************************************)

\* the reply tasks that may be in flight together, each with its payload
Procs == {"t1", "t2"}

\* two different replies, and one reply delivered to both tasks
DistinctPayloads ==
    [p \in Procs |->
        IF p = "t1"
        THEN [messageId |-> "m1", senderName |-> <<"Ann">>, messageText |-> <<"r1">>]
        ELSE [messageId |-> "m2", senderName |-> <<"Bob">>, messageText |-> <<"r2">>]]
SamePayload ==
    [p \in Procs |->
        [messageId |-> "m1", senderName |-> <<"Ann">>, messageText |-> <<"r1">>]]

SenderName  == [p \in Procs |-> payload[p].senderName]
MessageText == [p \in Procs |-> payload[p].messageText]

\* the work ids the first extraction may answer ('' when it finds none)
WorkIds == { <<"WO-1">>, <<"WO-2">>, <<"WO-9">> }

\* the data rows of the sheet at start: rows 2 and 4 share an identifier
DataRow(id, notes, status) ==
    << <<"msg">>, <<"t0">>, <<"Eve">>, <<"grp">>, id, <<"cust">>, <<"addr">>,
       << >>, << >>, <<"50">>, << >>, << >>, notes, status >>

InitSheets ==
    { << WorkOrdersHeaders,
         DataRow(<<"WO-1">>, n, st),
         DataRow(<<"WO-2">>, <<"n0">>, << >>),
         DataRow(<<"WO-1">>, << >>, <<"new">>) >> :
      n \in { << >>, <<"n0">> }, st \in { << >>, <<"new">> } }

\* what the extraction step may answer for a reply: no columnUpdates at all,
\* updates of the job-status and/or notes columns (as in its prompt), or an
\* update of a column index that no header has
ReplyAnalyses ==
    { [changesDetected |-> FALSE, hasColumnUpdates |-> FALSE, columnUpdates |-> << >>] }
    \cup
    { [changesDetected |-> TRUE, hasColumnUpdates |-> TRUE, columnUpdates |-> u] :
        u \in { << >>,
                (13 :> <<"done">>),
                (12 :> <<"Job finished">>),
                (12 :> <<"Job finished">>) @@ (13 :> <<"done">>),
                (14 :> <<"x">>) } }

NoAnalysis == [changesDetected |-> FALSE, hasColumnUpdates |-> FALSE, columnUpdates |-> << >>]

\* handleErrorCase(errorType, ...): a normal "ignored" result
HandleErrorCase(errorType) ==
    [success     |-> TRUE,
     messageType |-> "ignored",
     error       |-> CASE errorType = "not_found" -> "Work order not found in Google Sheets"
                       [] errorType = "missing_content" -> "No quoted message content found in reply"
                       [] OTHER -> "Message ignored"]

\* mutant: the catch block reports the failure like an ignored message
HandleNetworkErrorAsIgnored(error) ==
    [success |-> TRUE, messageType |-> "ignored", error |-> error]

\* handleNetworkError(error, ...): the failure result of the catch block
HandleNetworkError(error) ==
    [success |-> FALSE, messageType |-> "ignored", error |-> error]

\* the success result of processReplyMessage
ReplySuccess == [success |-> TRUE, messageType |-> "reply", error |-> "none"]

\* `${senderName}: ${messageText}`
FormattedReply(senderName, messageText) == senderName \o <<": ">> \o messageText

\* mutant: the update also stamps the "from" column with the replier
ColumnUpdatesStampsSender(sd, senderName, messageText, ra) ==
    LET hasNotes == "notes" \in DOMAIN sd.columnIndices
        notesColumnIndex == IF hasNotes THEN sd.columnIndices["notes"] ELSE -1
        prevNotes == Nullish(At(sd.rowData, notesColumnIndex), << >>)
        separator == IF Truthy(prevNotes) THEN <<"\n\n">> ELSE << >>
        own == IF hasNotes
               THEN (notesColumnIndex :>
                        prevNotes \o separator \o FormattedReply(senderName, messageText))
               ELSE << >>
        stamped == ObjectAssign(own, (sd.columnIndices["from"] :> senderName))
    IN IF ra.hasColumnUpdates THEN ObjectAssign(stamped, ra.columnUpdates) ELSE stamped

\* mutant: a reply whose text the notes already end with is not appended again
ColumnUpdatesSkipsRepeat(sd, senderName, messageText, ra) ==
    LET hasNotes == "notes" \in DOMAIN sd.columnIndices
        notesColumnIndex == IF hasNotes THEN sd.columnIndices["notes"] ELSE -1
        prevNotes == Nullish(At(sd.rowData, notesColumnIndex), << >>)
        separator == IF Truthy(prevNotes) THEN <<"\n\n">> ELSE << >>
        formatted == FormattedReply(senderName, messageText)
        repeated == /\ Len(prevNotes) >= Len(formatted)
                    /\ SubSeq(prevNotes, Len(prevNotes) - Len(formatted) + 1,
                              Len(prevNotes)) = formatted
        own == IF hasNotes
               THEN (notesColumnIndex :>
                        IF repeated THEN prevNotes
                        ELSE prevNotes \o separator \o formatted)
               ELSE << >>
    IN IF ra.hasColumnUpdates THEN ObjectAssign(own, ra.columnUpdates) ELSE own

\* Step 6: the column updates handed to the write
ColumnUpdates(sd, senderName, messageText, ra) ==
    LET hasNotes == "notes" \in DOMAIN sd.columnIndices
        notesColumnIndex == IF hasNotes THEN sd.columnIndices["notes"] ELSE -1
        prevNotes == Nullish(At(sd.rowData, notesColumnIndex), << >>)
        separator == IF Truthy(prevNotes) THEN <<"\n\n">> ELSE << >>
        own == IF hasNotes
               THEN (notesColumnIndex :>
                        prevNotes \o separator \o FormattedReply(senderName, messageText))
               ELSE << >>
    IN IF ra.hasColumnUpdates THEN ObjectAssign(own, ra.columnUpdates) ELSE own

\* the keys of an object with integer-like keys, in the order Object.entries
\* yields them (ascending)
RECURSIVE SortedKeys(_)
SortedKeys(S) ==
    IF S = {} THEN << >>
    ELSE LET m == CHOOSE x \in S : \A y \in S : x <= y
         IN <<m>> \o SortedKeys(S \ {m})

\* obj[k] = v on an object kept as its entries in insertion order
Put(obj, k, v) ==
    IF \E i \in DOMAIN obj : obj[i][1] = k
    THEN [i \in DOMAIN obj |-> IF obj[i][1] = k THEN <<k, v>> ELSE obj[i]]
    ELSE Append(obj, <<k, v>>)

\* Object.keys(columnIndices).find(key => columnIndices[key] === colIndex)
FieldNameOf(columnIndices, colIndex) ==
    IF \E k \in DOMAIN columnIndices : columnIndices[k] = colIndex
    THEN CHOOSE k \in DOMAIN columnIndices : columnIndices[k] = colIndex
    ELSE "<undefined>"

\* Step 7: changedFields and newValues, built over the entries of
\* replyAnalysis.columnUpdates
RECURSIVE AuditFieldsFrom(_, _, _, _)
AuditFieldsFrom(acc, columnIndices, updates, keys) ==
    IF keys = << >> THEN acc
    ELSE LET fieldName == FieldNameOf(columnIndices, Head(keys))
             next == IF fieldName # "<undefined>"
                     THEN [changedFields |-> Append(acc.changedFields, fieldName),
                           newValues |-> Put(acc.newValues, fieldName, updates[Head(keys)])]
                     ELSE acc
         IN AuditFieldsFrom(next, columnIndices, updates, Tail(keys))

AuditFields(sd, messageText, ra) ==
    LET start == [changedFields |-> <<"notes">>,
                  newValues |-> << <<"notes", messageText>> >>]
    IN IF ra.hasColumnUpdates
       THEN AuditFieldsFrom(start, sd.columnIndices, ra.columnUpdates,
                            SortedKeys(DOMAIN ra.columnUpdates))
       ELSE start

\* changedFields.join(', ')
RECURSIVE Join(_)
Join(fields) ==
    IF fields = << >> THEN << >>
    ELSE IF Len(fields) = 1 THEN <<fields[1]>>
    ELSE <<fields[1], ", ">> \o Join(Tail(fields))

\* JSON.stringify(details) of an object of string values
RECURSIVE JsonEntries(_)
JsonEntries(obj) ==
    IF obj = << >> THEN << >>
    ELSE <<"\"", obj[1][1], "\":\"">> \o obj[1][2] \o <<"\"">>
         \o (IF Len(obj) > 1 THEN <<",">> ELSE << >>) \o JsonEntries(Tail(obj))

JsonStringify(obj) == <<"{">> \o JsonEntries(obj) \o <<"}">>

\* mutant: the details object is appended as it is, the row ends at the actor
LogAuditEntryNoDetails(id, operation, description, timestamp, user, details) ==
    <<id, operation, description, timestamp, user>>

\* logAuditEntry(...): the row appended to AuditLog!A:F
LogAuditEntry(id, operation, description, timestamp, user, details) ==
    <<id, operation, description, timestamp, user, JsonStringify(details)>>

\* appendUpdateLog(workId, changes): the UPDATE row it appends
UpdateLogRow(id, changes) ==
    LogAuditEntry(id, <<"UPDATE">>,
        IF Len(changes.changedFields) > 0
        THEN <<"Fields changed: ">> \o Join(changes.changedFields)
        ELSE <<"No changes detected">>,
        <<"now">>, <<"system">>, changes.newValues)

ReadError  == "Failed to read data from Google Sheet"
WriteError == "Failed to update work order"
AuditError == "Failed to append data to Google Sheet"

Call(p, op, ok) == [proc |-> p, op |-> op, ok |-> ok]

Done(p, res) ==
    /\ pc' = [pc EXCEPT ![p] = "done"]
    /\ result' = [result EXCEPT ![p] = res]

\* Step 1: no quoted message content in the reply payload
NoQuotedContent(p) ==
    /\ pc[p] = "received"
    /\ Done(p, HandleErrorCase("missing_content"))
    /\ UNCHANGED <<sheet, auditLog, workId, sheetData, replyAnalysis,
                   columnUpdates, calls, uPc, payload, locateVars, threadVars, createVars, configVars, simpleVars, fallbackVars>>

\* Steps 2-3: analyzeMessage on the quoted text; '' when no work_id is found
AnalyzeQuoted(p) ==
    /\ pc[p] = "received"
    /\ \E id \in WorkIds \cup { << >> } :
         IF ~Truthy(id)
         THEN /\ Done(p, HandleErrorCase("missing_content"))
              /\ UNCHANGED workId
         ELSE /\ workId' = [workId EXCEPT ![p] = id]
              /\ pc' = [pc EXCEPT ![p] = "lookup"]
              /\ UNCHANGED result
    /\ UNCHANGED <<sheet, auditLog, sheetData, replyAnalysis, columnUpdates,
                   calls, uPc, payload, locateVars, threadVars, createVars, configVars, simpleVars, fallbackVars>>

\* Step 4: getSheetRowByWorkId rejects (the range read failed)
LookupFails(p) ==
    /\ pc[p] = "lookup"
    /\ calls' = Append(calls, Call(p, "read", FALSE))
    /\ Done(p, HandleNetworkError(ReadError))
    /\ UNCHANGED <<sheet, auditLog, workId, sheetData, replyAnalysis,
                   columnUpdates, uPc, payload, locateVars, threadVars, createVars, configVars, simpleVars, fallbackVars>>

\* mutant: a missing record falls back to the first data row
LookupNotFoundFallsBack(p) ==
    /\ pc[p] = "lookup"
    /\ GetSheetRowByWorkId(GetSheetData(sheet), workId[p]) = Null
    /\ sheetData' = [sheetData EXCEPT ![p] =
            GetSheetRowByWorkId(GetSheetData(sheet),
                                sheet[HEADER_ROW_INDEX + 1][JobIdCol + 1])]
    /\ calls' = Append(calls, Call(p, "read", TRUE))
    /\ pc' = [pc EXCEPT ![p] = "analyze"]
    /\ UNCHANGED <<sheet, auditLog, workId, replyAnalysis, columnUpdates,
                   result, uPc, payload, locateVars, threadVars, createVars, configVars, simpleVars, fallbackVars>>

\* Step 4: if (!sheetData) return handleErrorCase('not_found', ...)
LookupNotFound(p) ==
    /\ pc[p] = "lookup"
    /\ GetSheetRowByWorkId(GetSheetData(sheet), workId[p]) = Null
    /\ calls' = Append(calls, Call(p, "read", TRUE))
    /\ Done(p, HandleErrorCase("not_found"))
    /\ UNCHANGED <<sheet, auditLog, workId, sheetData, replyAnalysis,
                   columnUpdates, uPc, payload, locateVars, threadVars, createVars, configVars, simpleVars, fallbackVars>>

\* Step 4: the row snapshot is found
LookupFound(p) ==
    /\ pc[p] = "lookup"
    /\ GetSheetRowByWorkId(GetSheetData(sheet), workId[p]) # Null
    /\ sheetData' = [sheetData EXCEPT ![p] =
                        GetSheetRowByWorkId(GetSheetData(sheet), workId[p])]
    /\ calls' = Append(calls, Call(p, "read", TRUE))
    /\ pc' = [pc EXCEPT ![p] = "analyze"]
    /\ UNCHANGED <<sheet, auditLog, workId, replyAnalysis, columnUpdates,
                   result, uPc, payload, locateVars, threadVars, createVars, configVars, simpleVars, fallbackVars>>

\* mutant: analyzeReplyMessage rethrows the failure of the extraction step,
\* and the catch block of the reply ends it
AnalyzeReplyRejects(p) ==
    /\ pc[p] = "analyze"
    /\ \E ra \in ReplyAnalyses :
         IF ra = NoAnalysis
         THEN /\ Done(p, HandleNetworkError("Reply message analysis failed"))
              /\ UNCHANGED <<replyAnalysis, columnUpdates>>
         ELSE /\ replyAnalysis' = [replyAnalysis EXCEPT ![p] = ra]
              /\ columnUpdates' = [columnUpdates EXCEPT ![p] =
                    ColumnUpdates(sheetData[p], SenderName[p], MessageText[p], ra)]
              /\ pc' = [pc EXCEPT ![p] = "write"]
              /\ UNCHANGED result
    /\ UNCHANGED <<sheet, auditLog, workId, sheetData, calls, uPc, payload, locateVars, threadVars, createVars, configVars, simpleVars, fallbackVars>>

\* Steps 5-6: analyzeReplyMessage (never rejects), then the column updates
AnalyzeReply(p) ==
    /\ pc[p] = "analyze"
    /\ \E ra \in ReplyAnalyses :
         /\ replyAnalysis' = [replyAnalysis EXCEPT ![p] = ra]
         /\ columnUpdates' = [columnUpdates EXCEPT ![p] =
               ColumnUpdates(sheetData[p], SenderName[p], MessageText[p], ra)]
    /\ pc' = [pc EXCEPT ![p] = "write"]
    /\ UNCHANGED <<sheet, auditLog, workId, sheetData, result, calls, uPc, payload, locateVars, threadVars, createVars, configVars, simpleVars, fallbackVars>>

\* mutant: the row is read again right before the write and the updates are
\* recomputed from it
WriteOkFresh(p) ==
    /\ pc[p] = "write"
    /\ sheet' = UpdateSheetRowByIndices(sheet, sheetData[p].rowNumber,
                    ColumnUpdates(
                        [sheetData[p] EXCEPT
                            !.rowData = TrimRow(sheet[sheetData[p].rowNumber])],
                        SenderName[p], MessageText[p], replyAnalysis[p]))
    /\ calls' = Append(calls, Call(p, "write", TRUE))
    /\ pc' = [pc EXCEPT ![p] = "audit"]
    /\ UNCHANGED <<auditLog, workId, sheetData, replyAnalysis, columnUpdates,
                   result, uPc, payload, locateVars, threadVars, createVars, configVars, simpleVars, fallbackVars>>

\* Step 6: await updateSheetRowByIndices(sheetData.rowNumber, columnUpdates)
WriteOk(p) ==
    /\ pc[p] = "write"
    /\ sheet' = UpdateSheetRowByIndices(sheet, sheetData[p].rowNumber, columnUpdates[p])
    /\ calls' = Append(calls, Call(p, "write", TRUE))
    /\ pc' = [pc EXCEPT ![p] = "audit"]
    /\ UNCHANGED <<auditLog, workId, sheetData, replyAnalysis, columnUpdates,
                   result, uPc, payload, locateVars, threadVars, createVars, configVars, simpleVars, fallbackVars>>

\* mutant: a rejected write is reported as a reply update
WriteFailsReportsReply(p) ==
    /\ pc[p] = "write"
    /\ calls' = Append(calls, Call(p, "write", FALSE))
    /\ Done(p, ReplySuccess)
    /\ UNCHANGED <<sheet, auditLog, workId, sheetData, replyAnalysis,
                   columnUpdates, uPc, payload, locateVars, threadVars, createVars, configVars, simpleVars, fallbackVars>>

\* mutant: a rejected write is attempted once more before giving up
WriteFailsRetries(p) ==
    /\ pc[p] = "write"
    /\ calls' = Append(calls, Call(p, "write", FALSE))
    /\ IF \E i \in DOMAIN calls : calls[i] = Call(p, "write", FALSE)
       THEN Done(p, HandleNetworkError(WriteError))
       ELSE UNCHANGED <<pc, result>>
    /\ UNCHANGED <<sheet, auditLog, workId, sheetData, replyAnalysis,
                   columnUpdates, uPc, payload, locateVars, threadVars, createVars, configVars, simpleVars, fallbackVars>>

\* mutant: a rejected write is logged and the flow goes on to the audit step
WriteFailsStillAudits(p) ==
    /\ pc[p] = "write"
    /\ calls' = Append(calls, Call(p, "write", FALSE))
    /\ pc' = [pc EXCEPT ![p] = "audit"]
    /\ UNCHANGED <<sheet, auditLog, workId, sheetData, replyAnalysis,
                   columnUpdates, result, uPc, payload, locateVars, threadVars, createVars, configVars, simpleVars, fallbackVars>>

\* Step 6: the write rejects; the catch block returns handleNetworkError
WriteFails(p) ==
    /\ pc[p] = "write"
    /\ calls' = Append(calls, Call(p, "write", FALSE))
    /\ Done(p, HandleNetworkError(WriteError))
    /\ UNCHANGED <<sheet, auditLog, workId, sheetData, replyAnalysis,
                   columnUpdates, uPc, payload, locateVars, threadVars, createVars, configVars, simpleVars, fallbackVars>>

\* mutant: appendUpdateLog rethrows the failure of the append
AppendUpdateLogRethrows(appendOk) == IF appendOk THEN "resolved" ELSE "rejected"

\* appendUpdateLog: its try/catch logs the failure and does not rethrow
AppendUpdateLogSettles(appendOk) == "resolved"

\* Step 7: await appendUpdateLog(...), then return the reply result
AuditAndReturn(p) ==
    /\ pc[p] = "audit"
    /\ \E appendOk \in BOOLEAN :
         /\ auditLog' = IF appendOk
                        THEN Append(auditLog,
                                UpdateLogRow(workId[p],
                                    AuditFields(sheetData[p], MessageText[p],
                                                replyAnalysis[p])))
                        ELSE auditLog
         /\ calls' = Append(calls, Call(p, "append", appendOk))
         /\ Done(p, IF AppendUpdateLogSettles(appendOk) = "resolved"
                    THEN ReplySuccess
                    ELSE HandleNetworkError(AuditError))
    /\ UNCHANGED <<sheet, workId, sheetData, replyAnalysis, columnUpdates, uPc, payload, locateVars, threadVars, createVars, configVars, simpleVars, fallbackVars>>

\* updateSheetRow(rowNumber, updates): returns without a call when no request
\* is built; otherwise one batchUpdate, whose failure is rethrown
UpdateSheetRow ==
    /\ uPc < MaxUpdates
    /\ \E rowNumber \in LegacyRows, updates \in LegacyUpdates, ok \in BOOLEAN :
         LET requests == BuildUpdateRequests(rowNumber, updates) IN
         IF Len(requests) = 0
         THEN UNCHANGED <<sheet, calls>>
         ELSE /\ calls' = Append(calls,
                    [proc |-> "u", op |-> "batchUpdate", ok |-> ok,
                     rowNumber |-> rowNumber, updates |-> updates])
              /\ sheet' = IF ok THEN BatchUpdate(sheet, requests) ELSE sheet
    /\ uPc' = uPc + 1
    /\ UNCHANGED <<auditLog, pc, workId, sheetData, replyAnalysis,
                   columnUpdates, result, payload, locateVars, threadVars, createVars, configVars, simpleVars, fallbackVars>>

ReplyStep(p) ==
    \/ NoQuotedContent(p)
    \/ AnalyzeQuoted(p)
    \/ LookupFails(p)
    \/ LookupNotFound(p)
    \/ LookupFound(p)
    \/ AnalyzeReply(p)
    \/ WriteOk(p)
    \/ WriteFails(p)
    \/ AuditAndReturn(p)

ReplyInit ==
    /\ sheet \in InitSheets
    /\ auditLog = << >>
    /\ pc = [p \in Procs |-> "received"]
    /\ workId = [p \in Procs |-> << >>]
    /\ sheetData = [p \in Procs |-> Null]
    /\ replyAnalysis = [p \in Procs |-> NoAnalysis]
    /\ columnUpdates = [p \in Procs |-> << >>]
    /\ result = [p \in Procs |-> Null]
    /\ calls = << >>
    /\ uPc = 0
    /\ payload = DistinctPayloads

\* the record locator and the thread resolver at rest
LocateIdle ==
    /\ fPc = "done" /\ fIdCol = JobIdCol /\ fStore = << >> /\ fWorkId = << >>
    /\ fData = << >> /\ fReadFailed = FALSE
    /\ fResult = [kind |-> "pending", rowNumber |-> 0]
    /\ fLog = << >>

ThreadIdle ==
    /\ messages = << >> /\ tPc = "done" /\ tClient = FALSE
    /\ tArgs = [replyMessageId |-> "", targetGroupId |-> ""]
    /\ tWork = {} /\ tRows = {} /\ tBase = "" /\ tResult = << >>
    /\ tLog = << >>

CreateIdle ==
    /\ cPc = "done" /\ cSender = << >> /\ cOrder = Null /\ cResult = Null

SimpleIdle ==
    /\ sPc = "done" /\ sResult = Null
    /\ sPayload = [shape |-> "object", messageId |-> "", remoteJid |-> "",
                   isReply |-> FALSE]

FallbackIdle ==
    /\ qOut = << >>
    /\ qMessage = [given |-> FALSE, conversation |-> << >>,
                   extendedText |-> << >>, caption |-> << >>]

Lookups == {"l1", "l2"}

ConfigIdle ==
    /\ kDb = [ver |-> 0, present |-> FALSE]
    /\ kCache = [cached |-> FALSE, fresh |-> FALSE, ver |-> 0, present |-> FALSE]
    /\ kPc = [l \in Lookups |-> "done"]
    /\ kRead = [l \in Lookups |-> [ver |-> 0, present |-> FALSE]]
    /\ kResult = [l \in Lookups |-> [ver |-> 0, present |-> FALSE]]
    /\ kMinVer = [l \in Lookups |-> 0]
    /\ wPc = "idle" /\ wDone = 0 /\ wCount = 0

\* concurrent reply tasks against the sheet
Init == ReplyInit /\ LocateIdle /\ ThreadIdle /\ CreateIdle /\ ConfigIdle /\ SimpleIdle /\ FallbackIdle

Next == \E p \in Procs : ReplyStep(p)

Spec == Init /\ [][Next]_vars

\* every await of a task settles and the event loop resumes the task
SpecFair == Init /\ [][Next]_vars /\ \A p \in Procs : WF_vars(ReplyStep(p))

\* the same reply handed to both tasks (a delivery repeated)
RedeliverInit ==
    /\ sheet \in InitSheets
    /\ auditLog = << >>
    /\ pc = [p \in Procs |-> "received"]
    /\ workId = [p \in Procs |-> << >>]
    /\ sheetData = [p \in Procs |-> Null]
    /\ replyAnalysis = [p \in Procs |-> NoAnalysis]
    /\ columnUpdates = [p \in Procs |-> << >>]
    /\ result = [p \in Procs |-> Null]
    /\ calls = << >>
    /\ uPc = 0
    /\ payload = SamePayload
    /\ LocateIdle /\ ThreadIdle /\ CreateIdle /\ ConfigIdle /\ SimpleIdle /\ FallbackIdle

SpecRedeliver == RedeliverInit /\ [][Next]_vars

\* updateSheetRow calls against the sheet, no reply task in flight
UpdateInit ==
    /\ sheet \in InitSheets
    /\ auditLog = << >>
    /\ pc = [p \in Procs |-> "done"]
    /\ workId = [p \in Procs |-> << >>]
    /\ sheetData = [p \in Procs |-> Null]
    /\ replyAnalysis = [p \in Procs |-> NoAnalysis]
    /\ columnUpdates = [p \in Procs |-> << >>]
    /\ result = [p \in Procs |-> Null]
    /\ calls = << >>
    /\ uPc = 0
    /\ payload = DistinctPayloads
    /\ LocateIdle /\ ThreadIdle /\ CreateIdle /\ ConfigIdle /\ SimpleIdle /\ FallbackIdle

UpdateNext == UpdateSheetRow

SpecUpdate == UpdateInit /\ [][UpdateNext]_vars

(***************************************************************************)
(* Properties of reply processing                                          *)
(***************************************************************************)

NotesKnown(p)   == sheetData[p] # Null /\ "notes" \in DOMAIN sheetData[p].columnIndices
NotesIndex(p)   == sheetData[p].columnIndices["notes"]
\* the notes value read in the snapshot of task p
SnapshotNotes(p) == Nullish(At(sheetData[p].rowData, NotesIndex(p)), << >>)

\* the calls of task p, and whether one of a kind and outcome was made
Made(p, op, ok) == \E i \in DOMAIN calls : calls[i] = Call(p, op, ok)
CallIndex(p, op, ok) == CHOOSE i \in DOMAIN calls : calls[i] = Call(p, op, ok)

\* the identifier occurs in some data row of the store
Present(grid, id) ==
    \E i \in (HEADER_ROW_INDEX + 1)..Len(grid) : grid[i][JobIdCol + 1] = id

\* C1: whenever a reply has been written to a record that has a notes column,
\* the value written to the notes cell starts with the notes value of the
\* snapshot, followed (when that value is non-empty) by the separator, and ends
\* with the new reply text; whatever the extraction step proposed.
C1_NotesNeverReplaced ==
    \A p \in Procs :
        (Made(p, "write", TRUE) /\ NotesKnown(p)) =>
            LET lead == SnapshotNotes(p)
                        \o (IF Truthy(SnapshotNotes(p)) THEN <<"\n\n">> ELSE << >>)
            IN /\ NotesIndex(p) \in DOMAIN columnUpdates[p]
               /\ IsPrefix(lead, columnUpdates[p][NotesIndex(p)])
               /\ Contains(SubSeq(columnUpdates[p][NotesIndex(p)], Len(lead) + 1,
                                  Len(columnUpdates[p][NotesIndex(p)])),
                           MessageText[p])

\* the columns task p proposes to change: the notes column (the reply itself)
\* and the columns the extraction step names
ProposedCols(p) ==
    (IF NotesKnown(p) THEN {NotesIndex(p)} ELSE {})
    \cup (IF replyAnalysis[p].hasColumnUpdates
          THEN DOMAIN replyAnalysis[p].columnUpdates ELSE {})

WroteBefore(p, q) ==
    /\ Made(p, "write", TRUE) /\ Made(q, "write", TRUE)
    /\ CallIndex(p, "write", TRUE) < CallIndex(q, "write", TRUE)

\* C3: with no locking, when two replies for the same identifier both read
\* the same row snapshot, the later write leaves the notes cell without the
\* text the earlier write appended.
C3_LaterWriteDropsEarlierAppend ==
    \A p, q \in Procs :
        (p # q /\ WroteBefore(p, q) /\ sheetData[p] = sheetData[q] /\ NotesKnown(p)) =>
            ~Contains(sheet[sheetData[p].rowNumber][NotesIndex(p) + 1],
                      FormattedReply(SenderName[p], MessageText[p]))

C3_Witness ==
    \E p, q \in Procs :
        /\ p # q /\ WroteBefore(p, q) /\ sheetData[p] = sheetData[q]
        /\ workId[p] = workId[q]
        /\ NotesKnown(p)
        /\ Contains(columnUpdates[p][NotesIndex(p)],
                    FormattedReply(SenderName[p], MessageText[p]))
        /\ ~Contains(sheet[sheetData[p].rowNumber][NotesIndex(p) + 1],
                     FormattedReply(SenderName[p], MessageText[p]))
        /\ Contains(sheet[sheetData[p].rowNumber][NotesIndex(p) + 1],
                    FormattedReply(SenderName[q], MessageText[q]))

LastWriter(r) ==
    LET W == {i \in DOMAIN calls : /\ calls[i].op = "write" /\ calls[i].ok
                                   /\ sheetData[calls[i].proc].rowNumber = r}
    IN calls[CHOOSE i \in W : \A j \in W : j <= i].proc

\* C8: when the audit append fails after the store write of a reply
\* succeeded, appendUpdateLog does not raise, the written update stays in
\* place, and the reply is reported as a successful reply update.
C8_AuditFailureSwallowed ==
    \A p \in Procs :
        Made(p, "append", FALSE) =>
            /\ Made(p, "write", TRUE)
            /\ pc[p] = "done"
            /\ result[p].success = TRUE /\ result[p].messageType = "reply"
            /\ (LastWriter(sheetData[p].rowNumber) = p =>
                  \A c \in DOMAIN columnUpdates[p] :
                     sheet[sheetData[p].rowNumber][c + 1] = columnUpdates[p][c])

C8_Witness ==
    \E p \in Procs :
        /\ Made(p, "append", FALSE) /\ pc[p] = "done"
        /\ auditLog = << >>
        /\ Contains(sheet[sheetData[p].rowNumber][NotesIndex(p) + 1], MessageText[p])

\* C9: when the store write of a reply fails, processReplyMessage returns an
\* error outcome (success = false) carrying the write error, the reply is not
\* reported as a reply update, and nothing is audited.
C9_WriteFailureSurfaced ==
    \A p \in Procs :
        Made(p, "write", FALSE) =>
            /\ pc[p] = "done"
            /\ result[p].success = FALSE
            /\ result[p].error = WriteError
            /\ result[p].messageType # "reply"
            /\ ~Made(p, "append", TRUE) /\ ~Made(p, "append", FALSE)

C9_Witness ==
    \E p \in Procs :
        /\ Made(p, "write", FALSE) /\ pc[p] = "done"
        /\ sheet[sheetData[p].rowNumber] # << >>
        /\ result[p] = HandleNetworkError(WriteError)

\* the position of a step in the sequence of processReplyMessage
StepRank(step) ==
    CASE step = "received" -> 0 [] step = "lookup" -> 1 [] step = "analyze" -> 2
      [] step = "write" -> 3 [] step = "audit" -> 4 [] step = "done" -> 5

CallsOf(p) == { i \in DOMAIN calls : calls[i].proc = p }

\* the outcome of a finished task, told from what it returned
Outcome(p) ==
    CASE result[p] = ReplySuccess -> "updated"
      [] result[p] = HandleErrorCase("not_found") -> "not_found"
      [] result[p] = HandleErrorCase("missing_content") -> "no_identifier"
      [] result[p] \in {HandleNetworkError(ReadError), HandleNetworkError(WriteError)} -> "failure"
      [] OTHER -> "none"

\* what a finished task did agrees with the one outcome it returned
OutcomeMatchesPath(p) ==
    /\ Outcome(p) # "none"
    /\ Outcome(p) = "updated" <=>
          /\ Made(p, "write", TRUE)
          /\ \E i \in CallsOf(p) : calls[i].op = "append"
                                   /\ i > CallIndex(p, "write", TRUE)
    /\ Outcome(p) = "not_found" <=>
          (Made(p, "read", TRUE) /\ sheetData[p] = Null)
    /\ Outcome(p) = "no_identifier" <=> CallsOf(p) = {}
    /\ Outcome(p) = "failure" <=> \E i \in CallsOf(p) : ~calls[i].ok /\ calls[i].op # "append"

\* C11: every processing of a reply ends, in exactly one of the outcomes
\* updated-then-audited, record-not-found, no-identifier or reported failure;
\* a record write is made only after the record was found; and every step
\* of a task moves it forward in the sequence, so no step is entered twice.
C11_OneOutcomeNoStepTwice ==
    /\ [](\A p \in Procs :
            /\ (pc[p] # "done" => result[p] = Null)
            /\ (pc[p] = "done" => OutcomeMatchesPath(p))
            /\ \A i \in CallsOf(p) :
                  calls[i].op = "write" =>
                      /\ sheetData[p] # Null
                      /\ Made(p, "read", TRUE) /\ CallIndex(p, "read", TRUE) < i
            /\ \A i, j \in CallsOf(p) : calls[i].op = calls[j].op => i = j)
    /\ [][\A p \in Procs :
            pc'[p] # pc[p] => StepRank(pc'[p]) > StepRank(pc[p])]_vars
    /\ <>(\A p \in Procs : pc[p] = "done")

\* one task ended updated-then-audited, the other with a reported failure
C11_Witness ==
    /\ \A p \in Procs : pc[p] = "done"
    /\ Outcome("t1") = "updated" /\ Made("t1", "append", TRUE)
    /\ Outcome("t2") = "failure" /\ Made("t2", "write", FALSE)

\* the two ignored outcomes, reached together
C11_IgnoredOutcomesReached ==
    /\ \A p \in Procs : pc[p] = "done"
    /\ Outcome("t1") = "not_found"
    /\ Outcome("t2") = "no_identifier"

\* a occurs in s, and b occurs after it
ContainsInOrder(s, a, b) ==
    \E k \in 0..Len(s) :
        Contains(SubSeq(s, 1, k), a) /\ Contains(SubSeq(s, k + 1, Len(s)), b)

\* task q read the row after the write of task p had completed
StartedAfterWrite(p, q) ==
    /\ Made(p, "write", TRUE) /\ Made(q, "read", TRUE)
    /\ CallIndex(p, "write", TRUE) < CallIndex(q, "read", TRUE)

\* C12: when two replies for the same identifier are processed one after the
\* other (the second reads the row after the first write completed), the
\* notes cell after the second write holds the first reply text followed by
\* the second reply text.
C12_SequentialRepliesBothKept ==
    \A p, q \in Procs :
        (/\ p # q /\ StartedAfterWrite(p, q) /\ Made(q, "write", TRUE)
         /\ workId[p] = workId[q] /\ NotesKnown(q)) =>
            ContainsInOrder(sheet[sheetData[q].rowNumber][NotesIndex(q) + 1],
                            MessageText[p], MessageText[q])

\* the write attempts task p made
WriteAttempts(p) == { i \in CallsOf(p) : calls[i].op = "write" }

ColumnIndexOf(field) == CharCodeAt0(COLUMN_MAP[field]) - 65

\* C17: every change set written for a reply holds the last-modified-at and
\* last-modified-by columns, stamped with the current time and the sender of
\* the reply.
C17_LastModifiedStamped ==
    \A p \in Procs :
        Made(p, "write", TRUE) =>
            /\ ColumnIndexOf("updated_at") \in DOMAIN columnUpdates[p]
            /\ ColumnIndexOf("updated_by") \in DOMAIN columnUpdates[p]
            /\ columnUpdates[p][ColumnIndexOf("updated_at")] = <<"now">>
            /\ columnUpdates[p][ColumnIndexOf("updated_by")] = SenderName[p]

\* the column indices of the field-to-column map of the record task p located
KnownCols(p) ==
    { sheetData[p].columnIndices[f] : f \in DOMAIN sheetData[p].columnIndices }

\* C18: a proposed change is written only if its column exists in the
\* field-to-column map of the located record: the change set handed to the
\* write names known columns only, and no row of the store holds a value in
\* a column that no header names.
C18_UnknownColumnsDropped ==
    /\ \A p \in Procs :
          Made(p, "write", TRUE) => DOMAIN columnUpdates[p] \subseteq KnownCols(p)
    /\ \A r \in DOMAIN sheet :
          \A j \in DOMAIN sheet[r] : j > NumCols => sheet[r][j] = << >>

\* the extraction step of task p left the notes column alone, so the notes
\* value task p writes is its append
AppendsNotes(p) ==
    NotesKnown(p) /\ NotesIndex(p) \notin DOMAIN replyAnalysis[p].columnUpdates

AuditDetails(p) == AuditFields(sheetData[p], MessageText[p], replyAnalysis[p]).newValues

\* C23: for every applied reply update, each field of the details recorded
\* in the audit entry holds the value that was written to the cell of that
\* field, the notes field included.
C23_AuditDetailsEqualWrittenValues ==
    \A p \in Procs :
        Made(p, "append", TRUE) =>
            \A i \in DOMAIN AuditDetails(p) :
                LET field == AuditDetails(p)[i][1]
                    col   == sheetData[p].columnIndices[field]
                IN /\ col \in DOMAIN columnUpdates[p]
                   /\ AuditDetails(p)[i][2] = columnUpdates[p][col]

(***************************************************************************)
(* Properties of updateSheetRow                                            *)
(***************************************************************************)

\* the entries of an update that name a mapped field and hold a value
ValidEntries(updates) ==
    { i \in DOMAIN updates :
        updates[i][2] # UndefVal /\ updates[i][1] \in DOMAIN COLUMN_MAP }

\* the columns those entries are mapped to
TargetCols(updates) == { ColumnIndexOf(updates[i][1]) : i \in ValidEntries(updates) }

BatchUpdateCalls == { i \in DOMAIN calls : calls[i].op = "batchUpdate" }

\* C19: an entry whose value is undefined causes no write to its cell, which
\* keeps its value; an updateSheetRow call whose updates hold no valid change
\* makes no batchUpdate call at all.
C19_UndefinedWritesNothing ==
    /\ [](\A i \in BatchUpdateCalls : ValidEntries(calls[i].updates) # {})
    /\ [][uPc' # uPc =>
            IF Len(calls') = Len(calls) THEN sheet' = sheet
            ELSE LET c == calls'[Len(calls')] IN
                 \A r \in DOMAIN sheet : \A j \in DOMAIN sheet[r] :
                    (r # c.rowNumber \/ (j - 1) \notin TargetCols(c.updates)) =>
                        sheet'[r][j] = sheet[r][j]]_vars

\* a call whose updates give deposit as undefined went through, and the
\* deposit cell of the row still holds its value
C19_Witness ==
    \E i \in BatchUpdateCalls :
        /\ calls[i].ok
        /\ \E k \in DOMAIN calls[i].updates : calls[i].updates[k] = <<"deposit", UndefVal>>
        /\ sheet[calls[i].rowNumber][ColumnIndexOf("deposit") + 1] = <<"50">>
        /\ sheet[calls[i].rowNumber][ColumnIndexOf("total_price") + 1] = <<"500">>

\* an updateSheetRow call with nothing valid to write made no store call
NoValidChangeNoCall == uPc > 0 /\ calls = << >>

\* C20: applying the same update to a record a second time leaves every
\* cell as the first application left it.
C20_SameUpdateTwiceIsOnce ==
    [][(/\ Len(calls') = Len(calls) + 1 /\ Len(calls) >= 1
        /\ calls'[Len(calls')] = calls[Len(calls)]
        /\ calls[Len(calls)].ok) => sheet' = sheet]_vars

\* the same update went through twice and the cells hold its values
C20_Witness ==
    /\ Len(calls) = 2 /\ calls[1] = calls[2] /\ calls[1].ok
    /\ Len(calls[1].updates) = 4
    /\ sheet[calls[1].rowNumber][ColumnIndexOf("job_status") + 1] = <<"completed">>
    /\ sheet[calls[1].rowNumber][ColumnIndexOf("updated_by") + 1] = <<"Jane Smith">>

(***************************************************************************)
(* The record locator: findSheetRowByWorkId                                *)
(***************************************************************************)

\* the first version searches column A (row[0])
WorkIdColV1 == 0

\* how many data rows the range read holds at most
MaxRows == 3

\* a row as values.get returns it: holding an identifier, or too short to
\* hold one
RowWithId(idCol, id) ==
    [j \in 1..(idCol + 2) |-> IF j = idCol + 1 THEN id ELSE <<"x">>]
ShortRow(idCol) == [j \in 1..idCol |-> <<"x">>]

LocateRows(idCol) ==
    { RowWithId(idCol, <<"WO-1">>), RowWithId(idCol, <<"WO-2">>), ShortRow(idCol) }

\* the ranges read: no values at all, or the header row and up to MaxRows rows
LocateStores(idCol) ==
    { << >> } \cup
    UNION { { <<RowWithId(idCol, <<"Job ID">>)>> \o rows :
                rows \in [1..n -> LocateRows(idCol)] } : n \in 0..MaxRows }

NullResult     == [kind |-> "null", rowNumber |-> 0]
RowResult(n)   == [kind |-> "row", rowNumber |-> n]
PendingResult  == [kind |-> "pending", rowNumber |-> 0]

LogLine(level, message) == [level |-> level, message |-> message]

\* what the body of findSheetRowByWorkId logs after the read
ScanLogLine(data, idCol, id) ==
    IF Len(data) = 0 THEN LogLine("warn", "No data found in WorkOrders sheet")
    ELSE IF FirstMatch(data, idCol, id, HEADER_ROW_INDEX) < 0
         THEN LogLine("warn", "Work order not found")
    ELSE LogLine("info", "Found work order")

\* the body of findSheetRowByWorkId after the read
ScanForWorkId(data, idCol, id) ==
    IF Len(data) = 0 THEN NullResult
    ELSE LET i == FirstMatch(data, idCol, id, HEADER_ROW_INDEX) IN
         IF i < 0 THEN NullResult ELSE RowResult(i + 1)

\* await getSheetData(RANGES.WORK_ORDERS_DATA) resolves
FindRead ==
    /\ fPc = "call"
    /\ fData' = fStore
    /\ fPc' = "scan"
    /\ fLog' = Append(fLog, LogLine("info", "Searching for work order"))
    /\ UNCHANGED <<fIdCol, fStore, fWorkId, fReadFailed, fResult, replyVars, threadVars, createVars, configVars, simpleVars, fallbackVars>>

\* getSheetData rejects: the catch block logs and returns null
FindReadFails ==
    /\ fPc = "call"
    /\ fReadFailed' = TRUE
    /\ fResult' = NullResult
    /\ fLog' = Append(fLog, LogLine("error", "Failed to find work order"))
    /\ fPc' = "done"
    /\ UNCHANGED <<fIdCol, fStore, fWorkId, fData, replyVars, threadVars, createVars, configVars, simpleVars, fallbackVars>>

\* the empty check and the scan loop
FindScan ==
    /\ fPc = "scan"
    /\ fResult' = ScanForWorkId(fData, fIdCol, fWorkId)
    /\ fLog' = Append(fLog, ScanLogLine(fData, fIdCol, fWorkId))
    /\ fPc' = "done"
    /\ UNCHANGED <<fIdCol, fStore, fWorkId, fData, fReadFailed, replyVars, threadVars, createVars, configVars, simpleVars, fallbackVars>>

ReplyIdle ==
    /\ sheet = << >>
    /\ auditLog = << >>
    /\ pc = [p \in Procs |-> "done"]
    /\ workId = [p \in Procs |-> << >>]
    /\ sheetData = [p \in Procs |-> Null]
    /\ replyAnalysis = [p \in Procs |-> NoAnalysis]
    /\ columnUpdates = [p \in Procs |-> << >>]
    /\ result = [p \in Procs |-> Null]
    /\ calls = << >>
    /\ uPc = 0
    /\ payload = DistinctPayloads

LocateInit ==
    /\ fIdCol \in {WorkIdColV1, JobIdCol}
    /\ fStore \in LocateStores(fIdCol)
    /\ fWorkId \in { <<"WO-1">>, <<"WO-2">> }
    /\ fPc = "call"
    /\ fData = << >>
    /\ fReadFailed = FALSE
    /\ fResult = PendingResult
    /\ fLog = << >>
    /\ ReplyIdle /\ ThreadIdle /\ CreateIdle /\ ConfigIdle /\ SimpleIdle /\ FallbackIdle

LocateNext == FindRead \/ FindReadFails \/ FindScan

SpecLocate == LocateInit /\ [][LocateNext]_vars

\* the row numbers of the data rows that hold the identifier
MatchingRows ==
    { n \in (HEADER_ROW_INDEX + 1)..Len(fData) :
        Len(fData[n]) > fIdCol /\ fData[n][fIdCol + 1] = fWorkId }

\* C6: when several data rows hold the identifier, findSheetRowByWorkId
\* answers the matching row with the lowest row number, never a later one.
C6_FirstMatchWins ==
    (fPc = "done" /\ ~fReadFailed /\ Cardinality(MatchingRows) >= 2) =>
        /\ fResult.kind = "row"
        /\ fResult.rowNumber \in MatchingRows
        /\ \A n \in MatchingRows : fResult.rowNumber <= n

C6_Witness ==
    /\ fPc = "done" /\ ~fReadFailed
    /\ MatchingRows = {3, 4}
    /\ fResult = RowResult(3)

\* C10: when the range read fails, the lookup fails hard; it never answers
\* not-found (null) for a read that failed.
C10_ReadFailurePropagates ==
    (fPc = "done" /\ fReadFailed) => fResult.kind # "null"

(***************************************************************************)
(* The thread resolver: getThreadHistoryForReply and getThreadHistory over *)
(* the "Message" table (recursive CTEs, evaluated as PostgreSQL evaluates  *)
(* them: the recursive member is applied to the working table of the       *)
(* previous iteration until that table is empty)                           *)
(***************************************************************************)

\* the recursion depth at which the database gives the query up: the range
\* of the integer column depth, scaled down
MaxDepth == 4

SqlNull == "<NULL>"
Ids     == {"A", "B", "C"}
Groups  == {"g1", "g2"}

\* "key"->>'id' is the key of the table; a message replies to a stored
\* message, to one that is not stored ("X"), or to none
Message(parent, group, text) ==
    [stanzaId |-> parent, remoteJid |-> group, conversation |-> text,
     pushName |-> "Ann"]

MessageTables ==
    { [i \in Ids |-> Message(par[i],
                             IF i = "C" THEN gC ELSE "g1",
                             IF i = "A" THEN tA ELSE "text")] :
        par \in [Ids -> Ids \cup {"X", SqlNull}],
        gC \in Groups, tA \in {"text", SqlNull} }

\* ReplyChain, anchor member: the reply message itself
ReplyChainAnchor(id) ==
    { [message_id |-> m, parent_id |-> messages[m].stanzaId, depth |-> 0] :
        m \in { k \in DOMAIN messages : k = id } }

\* ReplyChain, recursive member: the stored parents of the working table
\* whose own stanzaId is not null
ReplyChainStep(work) ==
    { [message_id |-> pr[1], parent_id |-> messages[pr[1]].stanzaId,
       depth |-> pr[2].depth + 1] :
        pr \in { q \in (DOMAIN messages) \X work :
                   q[1] = q[2].parent_id /\ messages[q[1]].stanzaId # SqlNull } }

\* SELECT message_id FROM ReplyChain WHERE parent_id IS NULL
\* ORDER BY depth DESC LIMIT 1
BaseResult(rows) ==
    LET roots == { r \in rows : r.parent_id = SqlNull } IN
    { r.message_id : r \in { q \in roots : \A o \in roots : o.depth <= q.depth } }

\* the text of a jsonb string, as CONCAT renders it; CONCAT skips NULL
JsonText(c) == IF c = SqlNull THEN << >> ELSE <<"\"", c, "\"">>

\* MessageThread, anchor member: the messages of the group that reply to
\* nothing and have a conversation
MessageThreadAnchor(group) ==
    { [thread_base_id |-> m, current_message_id |-> m,
       message_text |-> messages[m].conversation,
       sender_name |-> messages[m].pushName, thread_depth |-> 0,
       full_thread_history |->
           <<messages[m].pushName, " : ">> \o JsonText(messages[m].conversation)] :
        m \in { k \in DOMAIN messages :
                  /\ messages[k].stanzaId = SqlNull
                  /\ messages[k].conversation # SqlNull
                  /\ messages[k].remoteJid = group } }

\* MessageThread, recursive member: the replies, in the group, to the rows of
\* the working table
MessageThreadStep(work, group) ==
    { [thread_base_id |-> pr[2].thread_base_id, current_message_id |-> pr[1],
       message_text |-> messages[pr[1]].conversation,
       sender_name |-> messages[pr[1]].pushName,
       thread_depth |-> pr[2].thread_depth + 1,
       full_thread_history |->
           pr[2].full_thread_history \o <<" | ", messages[pr[1]].pushName, " : ">>
               \o JsonText(messages[pr[1]].conversation)] :
        pr \in { q \in (DOMAIN messages) \X work :
                   /\ messages[q[1]].stanzaId = q[2].current_message_id
                   /\ messages[q[1]].stanzaId # SqlNull
                   /\ messages[q[1]].remoteJid = group } }

RECURSIVE MessageThread(_, _)
MessageThread(work, group) ==
    IF work = {} THEN {} ELSE work \cup MessageThread(MessageThreadStep(work, group), group)

\* the collation order of the message ids
IdRank == [i \in Ids |-> CHOOSE n \in 1..3 : <<i, n>> \in {<<"A", 1>>, <<"B", 2>>, <<"C", 3>>}]

\* ORDER BY thread_base_id, thread_depth: every order of the rows that the
\* two sort keys allow
OrderedByBaseAndDepth(rows) ==
    { s \in [1..Cardinality(rows) -> rows] :
        /\ \A i, j \in DOMAIN s : i # j => s[i] # s[j]
        /\ \A i, j \in DOMAIN s : i < j =>
              \/ IdRank[s[i].thread_base_id] < IdRank[s[j].thread_base_id]
              \/ /\ s[i].thread_base_id = s[j].thread_base_id
                 /\ s[i].thread_depth <= s[j].thread_depth }

\* getThreadHistory(messageId, targetGroupId), the query succeeding
GetThreadHistory(messageId, group) ==
    OrderedByBaseAndDepth(
        { r \in MessageThread(MessageThreadAnchor(group), group) :
            r.current_message_id = messageId \/ r.thread_base_id = messageId })

\* logger.warn / logger.error of the resolver; error is the error.message
\* logged by a catch block ("" in a warning)
ThreadLogLine(level, message, error) ==
    [level |-> level, message |-> message, error |-> error]

StoreUnreachable == "store unreachable"
RecursionRejected == "recursion rejected"

\* if (!client) return []
NoClient ==
    /\ tPc = "call" /\ ~tClient
    /\ tLog' = Append(tLog, ThreadLogLine("warn",
                    "Database not available, cannot get thread history for reply", ""))
    /\ tResult' = << >>
    /\ tPc' = "done"
    /\ UNCHANGED <<messages, tClient, tArgs, tWork, tRows, tBase, replyVars, locateVars, createVars, configVars, simpleVars, fallbackVars>>

\* findBaseQuery is rejected by the store (the catch block returns [])
FindBaseQueryFails ==
    /\ tPc = "call" /\ tClient
    /\ tLog' = Append(tLog, ThreadLogLine("error",
                    "Failed to get thread history for reply", StoreUnreachable))
    /\ tResult' = << >>
    /\ tPc' = "done"
    /\ UNCHANGED <<messages, tClient, tArgs, tWork, tRows, tBase, replyVars, locateVars, createVars, configVars, simpleVars, fallbackVars>>

\* findBaseQuery starts: the anchor member
FindBaseAnchor ==
    /\ tPc = "call" /\ tClient
    /\ tWork' = ReplyChainAnchor(tArgs.replyMessageId)
    /\ tRows' = tWork'
    /\ tPc' = "chain"
    /\ UNCHANGED <<tLog, messages, tClient, tArgs, tBase, tResult, replyVars, locateVars, createVars, configVars, simpleVars, fallbackVars>>

\* one iteration of the recursive member (UNION ALL: no row is dropped)
FindBaseStep ==
    /\ tPc = "chain" /\ tWork # {}
    /\ \A r \in tWork : r.depth < MaxDepth
    /\ tWork' = ReplyChainStep(tWork)
    /\ tRows' = tRows \cup tWork'
    /\ UNCHANGED <<tLog, messages, tPc, tClient, tArgs, tBase, tResult, replyVars, locateVars, createVars, configVars, simpleVars, fallbackVars>>

\* the recursion has not ended when depth leaves its range: the query is
\* rejected and the catch block returns []
FindBaseAborts ==
    /\ tPc = "chain" /\ tWork # {}
    /\ \E r \in tWork : r.depth >= MaxDepth
    /\ tLog' = Append(tLog, ThreadLogLine("error",
                    "Failed to get thread history for reply", RecursionRejected))
    /\ tResult' = << >>
    /\ tPc' = "done"
    /\ UNCHANGED <<messages, tClient, tArgs, tWork, tRows, tBase, replyVars, locateVars, createVars, configVars, simpleVars, fallbackVars>>

\* the recursion ended and no row of the chain is a base message
FindBaseEmpty ==
    /\ tPc = "chain" /\ tWork = {}
    /\ BaseResult(tRows) = {}
    /\ tLog' = Append(tLog, ThreadLogLine("warn",
                    "Could not find base message for reply", ""))
    /\ tResult' = << >>
    /\ tPc' = "done"
    /\ UNCHANGED <<messages, tClient, tArgs, tWork, tRows, tBase, replyVars, locateVars, createVars, configVars, simpleVars, fallbackVars>>

\* the recursion ended with a base message
FindBaseFound ==
    /\ tPc = "chain" /\ tWork = {}
    /\ tBase' \in BaseResult(tRows)
    /\ tPc' = "history"
    /\ UNCHANGED <<tLog, messages, tClient, tArgs, tWork, tRows, tResult, replyVars, locateVars, createVars, configVars, simpleVars, fallbackVars>>

\* return await getThreadHistory(baseMessageId, targetGroupId)
ReturnThreadHistory ==
    /\ tPc = "history"
    /\ tResult' \in GetThreadHistory(tBase, tArgs.targetGroupId)
    /\ tPc' = "done"
    /\ UNCHANGED <<tLog, messages, tClient, tArgs, tWork, tRows, tBase, replyVars, locateVars, createVars, configVars, simpleVars, fallbackVars>>

\* mutant: the failure of the thread query reaches the caller
ThreadHistoryQueryFailsRethrows ==
    /\ tPc = "history"
    /\ tLog' = Append(tLog, ThreadLogLine("error", "Failed to get thread history",
                                     StoreUnreachable))
    /\ tPc' = "thrown"
    /\ UNCHANGED <<messages, tClient, tArgs, tWork, tRows, tBase, tResult, replyVars, locateVars, createVars, configVars, simpleVars, fallbackVars>>

\* getThreadHistory: the thread query is rejected by the store; its catch
\* block logs and returns [], which getThreadHistoryForReply returns
ThreadHistoryQueryFails ==
    /\ tPc = "history"
    /\ tLog' = Append(tLog, ThreadLogLine("error", "Failed to get thread history",
                                     StoreUnreachable))
    /\ tResult' = << >>
    /\ tPc' = "done"
    /\ UNCHANGED <<messages, tClient, tArgs, tWork, tRows, tBase, replyVars, locateVars, createVars, configVars, simpleVars, fallbackVars>>

ThreadInit ==
    /\ messages \in MessageTables
    /\ tClient \in BOOLEAN
    /\ tArgs \in [replyMessageId : Ids, targetGroupId : {"g1"}]
    /\ tPc = "call"
    /\ tWork = {} /\ tRows = {} /\ tBase = "" /\ tResult = << >>
    /\ tLog = << >>
    /\ ReplyIdle /\ LocateIdle /\ CreateIdle /\ ConfigIdle /\ SimpleIdle /\ FallbackIdle

ThreadNext ==
    \/ NoClient \/ FindBaseQueryFails \/ FindBaseAnchor \/ FindBaseStep
    \/ FindBaseAborts \/ FindBaseEmpty \/ FindBaseFound
    \/ ReturnThreadHistory \/ ThreadHistoryQueryFails

SpecThread == ThreadInit /\ [][ThreadNext]_vars

\* the walk along the parent references, from a message upwards, that stops
\* at a message without parent, at a reference to a message not stored, or
\* at the first message id met twice
RECURSIVE ParentWalk(_, _)
ParentWalk(id, seen) ==
    IF id \notin DOMAIN messages THEN [end |-> "missing", seen |-> seen, at |-> id]
    ELSE IF \E i \in DOMAIN seen : seen[i] = id
         THEN [end |-> "cycle", seen |-> seen, at |-> id]
    ELSE IF messages[id].stanzaId = SqlNull
         THEN [end |-> "root", seen |-> Append(seen, id), at |-> id]
    ELSE ParentWalk(messages[id].stanzaId, Append(seen, id))

RequestWalk == ParentWalk(tArgs.replyMessageId, << >>)

\* the store answered every query it was sent
StoreAnswered ==
    \A i \in DOMAIN tLog : tLog[i].error # StoreUnreachable

CycleLength(w) ==
    Len(w.seen) + 1 - (CHOOSE i \in DOMAIN w.seen : w.seen[i] = w.at)

\* C4: resolving the thread of a reply whose parent chain contains a cycle
\* of length 2 or more returns a non-empty history in which no message id
\* occurs twice and every message is one of the chain up to the revisit.
C4_CycleYieldsTruncatedHistory ==
    (/\ tPc = "done" /\ tClient /\ StoreAnswered
     /\ RequestWalk.end = "cycle" /\ CycleLength(RequestWalk) >= 2) =>
        /\ tResult # << >>
        /\ \A i, j \in DOMAIN tResult :
              tResult[i].current_message_id = tResult[j].current_message_id => i = j
        /\ \A i \in DOMAIN tResult :
              \E k \in DOMAIN RequestWalk.seen :
                  RequestWalk.seen[k] = tResult[i].current_message_id

\* the stored messages form the chain the request walks: all of one channel,
\* all with text, and nothing else replies into the chain
RequestIsChainLeaf ==
    LET w == RequestWalk
        onChain == { w.seen[k] : k \in DOMAIN w.seen } IN
    /\ w.end = "root"
    /\ \A m \in onChain :
          /\ messages[m].remoteJid = tArgs.targetGroupId
          /\ messages[m].conversation # SqlNull
    /\ \A m \in DOMAIN messages :
          messages[m].stanzaId \in onChain =>
              \E k \in 1..(Len(w.seen) - 1) :
                  w.seen[k] = m /\ w.seen[k + 1] = messages[m].stanzaId

\* C5: for an acyclic reply chain of N stored messages in one channel,
\* resolving the thread of the leaf returns exactly the N messages, root
\* first, with depth 0, 1, ..., N-1.
C5_ChainReturnedRootToLeaf ==
    (tPc = "done" /\ tClient /\ StoreAnswered /\ RequestIsChainLeaf) =>
        LET seen == RequestWalk.seen
            N == Len(seen) IN
        /\ Len(tResult) = N
        /\ \A i \in 1..N :
              /\ tResult[i].current_message_id = seen[N + 1 - i]
              /\ tResult[i].thread_depth = i - 1

\* C13: no message of another group than the requested one is traversed
\* (enters the rows of ReplyChain while the parent references are walked) or
\* returned while a thread is resolved.
C13_OtherGroupsNeverTraversed ==
    /\ \A r \in tRows : messages[r.message_id].remoteJid = tArgs.targetGroupId
    /\ \A i \in DOMAIN tResult :
          messages[tResult[i].current_message_id].remoteJid = tArgs.targetGroupId

\* the part of C13 about what is returned
ReturnedInRequestedGroup ==
    \A i \in DOMAIN tResult :
        messages[tResult[i].current_message_id].remoteJid = tArgs.targetGroupId

\* C14: in every thread history returned, depth strictly increases from each
\* entry to the next and no message id occurs twice.
C14_DepthStrictlyIncreases ==
    /\ \A i \in 1..(Len(tResult) - 1) :
          tResult[i].thread_depth < tResult[i + 1].thread_depth
    /\ \A i, j \in DOMAIN tResult :
          tResult[i].current_message_id = tResult[j].current_message_id => i = j

\* the part of C14 about message ids
NoMessageIdTwice ==
    \A i, j \in DOMAIN tResult :
        tResult[i].current_message_id = tResult[j].current_message_id => i = j

(***************************************************************************)
(* Creating a record: processFirstMessage and createNewOrder               *)
(***************************************************************************)

DEFAULT_JOB_STATUS == <<"new">>
FullMessage        == <<"m1">>
GroupIdCell        == <<"120363418663151479@g.us">>

\* what analyzeMessage may answer for a first message
FirstAnalyses ==
    [relevant : BOOLEAN, work_id : WorkIds, deposit : {0, 100},
     job_status : { << >>, <<"done">> }]

\* value || fallback
OrElse(value, fallback) == IF Truthy(value) THEN value ELSE fallback

\* convertFirstMessageToOrderData(analysis, senderName)
ConvertFirstMessageToOrderData(analysis, senderName) ==
    [work_id |-> analysis.work_id, customer_name |-> <<"cust">>,
     address |-> <<"addr">>, deposit |-> analysis.deposit,
     job_status |-> OrElse(analysis.job_status, DEFAULT_JOB_STATUS),
     notes |-> << >>, created_at |-> <<"now">>, updated_at |-> <<"now">>,
     created_by |-> senderName, updated_by |-> senderName]

\* String(n || '')
NumberOrEmpty(n) == IF n = 0 THEN << >> ELSE <<ToString(n)>>

\* prepareOrderDataForSheet(orderData, fullMessage): the row appended
PrepareOrderDataForSheet(orderData, fullMessage) ==
    << fullMessage, orderData.created_at, orderData.created_by, GroupIdCell,
       orderData.work_id, orderData.customer_name, orderData.address,
       << >>, << >>, NumberOrEmpty(orderData.deposit), << >>, << >>,
       orderData.notes, OrElse(orderData.job_status, DEFAULT_JOB_STATUS) >>

\* the string-valued entries of the OrderData, as JSON.stringify meets them
OrderEntries(orderData) ==
    << <<"work_id", orderData.work_id>>,
       <<"customer_name", orderData.customer_name>>,
       <<"address", orderData.address>>,
       <<"deposit", <<ToString(orderData.deposit)>> >>,
       <<"job_status", orderData.job_status>>,
       <<"notes", orderData.notes>>,
       <<"created_at", orderData.created_at>>,
       <<"updated_at", orderData.updated_at>>,
       <<"created_by", orderData.created_by>>,
       <<"updated_by", orderData.updated_by>> >>

\* the CREATE row of the audit log
CreateLogRow(orderData) ==
    LogAuditEntry(orderData.work_id, <<"CREATE">>, <<"New work order created">>,
                  orderData.created_at, orderData.created_by, OrderEntries(orderData))

NotRelevant ==
    [success |-> TRUE, messageType |-> "ignored",
     error |-> "Message not relevant according to LLM analysis"]
FirstSuccess == [success |-> TRUE, messageType |-> "first", error |-> "none"]
CreateError  == "Failed to create work order: Failed to append data to Google Sheet"

\* the catch block of processFirstMessage
FirstFailure(error) == [success |-> FALSE, messageType |-> "ignored", error |-> error]

\* what processFirstMessage returns when logAuditEntry rejects inside
\* createNewOrder: the catch of createNewOrder rethrows, the catch of
\* processFirstMessage answers the failure
CreateAuditFailureResult == FirstFailure(CreateError)

\* Steps 1-2: analyzeMessage; not relevant ends as ignored
FirstAnalyze ==
    /\ cPc = "received"
    /\ \E analysis \in FirstAnalyses :
         IF ~analysis.relevant
         THEN /\ cResult' = NotRelevant /\ cPc' = "done" /\ UNCHANGED cOrder
         ELSE /\ cOrder' = ConvertFirstMessageToOrderData(analysis, cSender)
              /\ cPc' = "append" /\ UNCHANGED cResult
    /\ UNCHANGED <<cSender, replyVars, payload, locateVars, threadVars, configVars, simpleVars, fallbackVars>>

\* createNewOrder: await appendToSheet(RANGES.WORK_ORDERS_DATA, sheetData)
CreateRowAppended ==
    /\ cPc = "append"
    /\ sheet' = Append(sheet, PrepareOrderDataForSheet(cOrder, FullMessage))
    /\ calls' = Append(calls, Call("c", "appendRow", TRUE))
    /\ cPc' = "audit"
    /\ UNCHANGED <<cSender, cOrder, cResult, auditLog, pc, workId, sheetData,
                   replyAnalysis, columnUpdates, result, uPc, payload, locateVars, threadVars, configVars, simpleVars, fallbackVars>>

\* the row append rejects: createNewOrder rethrows, processFirstMessage fails
CreateRowAppendFails ==
    /\ cPc = "append"
    /\ calls' = Append(calls, Call("c", "appendRow", FALSE))
    /\ cResult' = FirstFailure(CreateError)
    /\ cPc' = "done"
    /\ UNCHANGED <<cSender, cOrder, sheet, auditLog, pc, workId, sheetData,
                   replyAnalysis, columnUpdates, result, uPc, payload, locateVars, threadVars, configVars, simpleVars, fallbackVars>>

\* createNewOrder: await logAuditEntry(..., CREATE, ...) resolves
CreateAudited ==
    /\ cPc = "audit"
    /\ auditLog' = Append(auditLog, CreateLogRow(cOrder))
    /\ calls' = Append(calls, Call("c", "append", TRUE))
    /\ cResult' = FirstSuccess
    /\ cPc' = "done"
    /\ UNCHANGED <<cSender, cOrder, sheet, pc, workId, sheetData,
                   replyAnalysis, columnUpdates, result, uPc, payload, locateVars, threadVars, configVars, simpleVars, fallbackVars>>

\* logAuditEntry rejects (appendToSheet rethrows)
CreateAuditFails ==
    /\ cPc = "audit"
    /\ calls' = Append(calls, Call("c", "append", FALSE))
    /\ cResult' = CreateAuditFailureResult
    /\ cPc' = "done"
    /\ UNCHANGED <<cSender, cOrder, sheet, auditLog, pc, workId, sheetData,
                   replyAnalysis, columnUpdates, result, uPc, payload, locateVars, threadVars, configVars, simpleVars, fallbackVars>>

CreateInit ==
    /\ sheet \in InitSheets
    /\ auditLog = << >>
    /\ pc = [p \in Procs |-> "done"]
    /\ workId = [p \in Procs |-> << >>]
    /\ sheetData = [p \in Procs |-> Null]
    /\ replyAnalysis = [p \in Procs |-> NoAnalysis]
    /\ columnUpdates = [p \in Procs |-> << >>]
    /\ result = [p \in Procs |-> Null]
    /\ calls = << >>
    /\ uPc = 0
    /\ payload = DistinctPayloads
    /\ cPc = "received"
    /\ cSender \in { <<"Ann">>, <<"Bob">> }
    /\ cOrder = Null /\ cResult = Null
    /\ LocateIdle /\ ThreadIdle /\ ConfigIdle /\ SimpleIdle /\ FallbackIdle

CreateNext ==
    \/ FirstAnalyze \/ CreateRowAppended \/ CreateRowAppendFails
    \/ CreateAudited \/ CreateAuditFails

SpecCreate == CreateInit /\ [][CreateNext]_vars

\* C15: when the row append of a new record succeeded and the append of its
\* CREATE audit entry fails, the creation still completes successfully.
C15_CreateAuditFailureSwallowed ==
    (/\ cPc = "done"
     /\ \E i \in DOMAIN calls : calls[i] = Call("c", "appendRow", TRUE)
     /\ \E i \in DOMAIN calls : calls[i] = Call("c", "append", FALSE)) =>
        /\ cResult.success = TRUE
        /\ cResult.messageType = "first"

\* C22: when a second data row with the same identifier lies below the first
\* match, findSheetRowByWorkId flags a warning and answers the first match.
C22_SecondMatchWarned ==
    (fPc = "done" /\ ~fReadFailed /\ Cardinality(MatchingRows) >= 2) =>
        /\ fResult.kind = "row"
        /\ \A n \in MatchingRows : fResult.rowNumber <= n
        /\ \E i \in DOMAIN fLog : fLog[i].level = "warn"

(***************************************************************************)
(* The configuration service: a module-level cache in front of the         *)
(* configuration table.  A row is written as [ver, present]: ver counts    *)
(* the writes that produced its content, present is FALSE when no enabled  *)
(* row names the group (the lookup then answers null).                     *)
(***************************************************************************)
MaxWrites == 2

NoEntry == [cached |-> FALSE, fresh |-> FALSE, ver |-> 0, present |-> FALSE]

\* cache.set(cacheKey, { config, timestamp: Date.now() })
CacheSet(config) ==
    [cached |-> TRUE, fresh |-> TRUE, ver |-> config.ver, present |-> config.present]

\* cached && Date.now() - cached.timestamp < CACHE_TTL
CacheHit == kCache.cached /\ kCache.fresh

\* getConfigurationByGroupId, up to the await: a fresh cache entry is
\* returned at once, otherwise the query is sent.
LookupStart(l) ==
    /\ kPc[l] = "idle"
    /\ kMinVer' = [kMinVer EXCEPT ![l] = wDone]
    /\ IF CacheHit
         THEN /\ kResult' = [kResult EXCEPT
                    ![l] = [ver |-> kCache.ver, present |-> kCache.present]]
              /\ kPc' = [kPc EXCEPT ![l] = "done"]
         ELSE /\ kPc' = [kPc EXCEPT ![l] = "query"]
              /\ UNCHANGED kResult
    /\ UNCHANGED <<kDb, kCache, kRead, wPc, wDone, wCount,
                   replyVars, locateVars, threadVars, createVars, simpleVars, fallbackVars>>

\* prisma.configuration.findFirst: the table answers with the row it holds.
LookupQuery(l) ==
    /\ kPc[l] = "query"
    /\ kRead' = [kRead EXCEPT ![l] = kDb]
    /\ kPc' = [kPc EXCEPT ![l] = "store"]
    /\ UNCHANGED <<kDb, kCache, kResult, kMinVer, wPc, wDone, wCount,
                   replyVars, locateVars, threadVars, createVars, simpleVars, fallbackVars>>

\* after the await: the answer (null included) is cached and returned.
LookupStore(l) ==
    /\ kPc[l] = "store"
    /\ kCache' = CacheSet(kRead[l])
    /\ kResult' = [kResult EXCEPT ![l] = kRead[l]]
    /\ kPc' = [kPc EXCEPT ![l] = "done"]
    /\ UNCHANGED <<kDb, kRead, kMinVer, wPc, wDone, wCount,
                   replyVars, locateVars, threadVars, createVars, simpleVars, fallbackVars>>

\* createConfiguration / updateConfiguration / deleteConfiguration, up to
\* the await: the table commits the write.
WriteCommit(kind) ==
    /\ wPc = "idle"
    /\ wCount < MaxWrites
    /\ kind = "create" => ~kDb.present
    /\ kind \in {"update", "delete"} => kDb.present
    /\ kDb' = [ver |-> kDb.ver + 1, present |-> kind # "delete"]
    /\ wPc' = "clear"
    /\ wCount' = wCount + 1
    /\ UNCHANGED <<kCache, kPc, kRead, kResult, kMinVer, wDone,
                   replyVars, locateVars, threadVars, createVars, simpleVars, fallbackVars>>

\* after the await: cache.clear(), and the write returns.
WriteClear ==
    /\ wPc = "clear"
    /\ kCache' = NoEntry
    /\ wDone' = kDb.ver
    /\ wPc' = "idle"
    /\ UNCHANGED <<kDb, kPc, kRead, kResult, kMinVer, wCount,
                   replyVars, locateVars, threadVars, createVars, simpleVars, fallbackVars>>

\* CACHE_TTL elapses: the entry is no longer fresh.
CacheExpires ==
    /\ CacheHit
    /\ kCache' = [kCache EXCEPT !.fresh = FALSE]
    /\ UNCHANGED <<kDb, kPc, kRead, kResult, kMinVer, wPc, wDone, wCount,
                   replyVars, locateVars, threadVars, createVars, simpleVars, fallbackVars>>

ConfigInit ==
    /\ kDb \in { [ver |-> 0, present |-> b] : b \in BOOLEAN }
    /\ kCache = NoEntry
    /\ kPc = [l \in Lookups |-> "idle"]
    /\ kRead = [l \in Lookups |-> [ver |-> 0, present |-> FALSE]]
    /\ kResult = [l \in Lookups |-> [ver |-> 0, present |-> FALSE]]
    /\ kMinVer = [l \in Lookups |-> 0]
    /\ wPc = "idle" /\ wDone = 0 /\ wCount = 0
    /\ ReplyIdle /\ LocateIdle /\ ThreadIdle /\ CreateIdle
    /\ SimpleIdle /\ FallbackIdle

ConfigNext ==
    \/ \E l \in Lookups : LookupStart(l)
    \/ \E l \in Lookups : LookupQuery(l)
    \/ \E l \in Lookups : LookupStore(l)
    \/ \E kind \in {"create", "update", "delete"} : WriteCommit(kind)
    \/ WriteClear
    \/ CacheExpires

SpecConfig == ConfigInit /\ [][ConfigNext]_vars

\* C24: a lookup that started after a configuration write had completed
\* returns the row as that write, or a later one, left it.
C24_LookupAfterWriteIsFresh ==
    \A l \in Lookups :
        (kPc[l] = "done" /\ kMinVer[l] > 0) => kResult[l].ver >= kMinVer[l]

(***************************************************************************)
(* The quoted-message resolvers: getThreadHistoryForReply without a        *)
(* message store, in its two versions.  A text is a sequence of            *)
(* characters; an absent field and an empty one are both << >> (falsy).    *)
(***************************************************************************)
MaxResolves == 2

QuotedTexts == { << >>, <<" ">>, <<"h", "i">>, <<" ", "h", "i", " ">> }

\* the quotedMessage argument: undefined, or an object with some of the fields
QuotedMessages ==
    { [given |-> FALSE, conversation |-> << >>, extendedText |-> << >>,
       caption |-> << >>] }
    \cup [given : {TRUE}, conversation : QuotedTexts,
          extendedText : QuotedTexts, caption : QuotedTexts]

RECURSIVE TrimStart(_)
TrimStart(s) ==
    IF s # << >> /\ Head(s) = " " THEN TrimStart(Tail(s)) ELSE s

RECURSIVE TrimEnd(_)
TrimEnd(s) ==
    IF s # << >> /\ s[Len(s)] = " " THEN TrimEnd(SubSeq(s, 1, Len(s) - 1)) ELSE s

\* String.prototype.trim
Trim(s) == TrimEnd(TrimStart(s))

\* conversation, else extendedTextMessage.text, else imageMessage.caption
ExtractQuotedText(q) ==
    IF Truthy(q.conversation) THEN q.conversation
    ELSE IF Truthy(q.extendedText) THEN q.extendedText
    ELSE IF Truthy(q.caption) THEN q.caption
    ELSE << >>

\* getThreadHistoryForReply(replyMessageId, targetGroupId, quotedMessage),
\* the version that reads the three kinds of quoted message
QuotedHistoryV2(replyMessageId, q) ==
    IF ~q.given THEN << >>
    ELSE LET quotedText == ExtractQuotedText(q) IN
         IF ~Truthy(quotedText) \/ Len(Trim(quotedText)) = 0 THEN << >>
         ELSE << [thread_base_id      |-> replyMessageId,
                  current_message_id  |-> replyMessageId,
                  sender_name         |-> "Previous Message",
                  message_text        |-> Trim(quotedText),
                  thread_depth        |-> 0,
                  full_thread_history |-> Trim(quotedText)] >>

\* getThreadHistoryForReply(replyMessageId, targetGroupId, quotedMessage),
\* the version that reads quotedMessage.conversation only
QuotedHistoryV3(replyMessageId, q) ==
    IF ~q.given \/ ~Truthy(q.conversation) THEN << >>
    ELSE << [message_id          |-> replyMessageId,
             sender_name         |-> "Original Sender",
             message_text        |-> q.conversation,
             thread_depth        |-> 0,
             full_thread_history |-> q.conversation] >>

ResolveQuotedV2 ==
    /\ Len(qOut) < MaxResolves
    /\ qOut' = Append(qOut, [fn |-> "v2", history |-> QuotedHistoryV2("m1", qMessage)])
    /\ UNCHANGED <<qMessage, replyVars, locateVars, threadVars, createVars,
                   configVars, simpleVars>>

ResolveQuotedV3 ==
    /\ Len(qOut) < MaxResolves
    /\ qOut' = Append(qOut, [fn |-> "v3", history |-> QuotedHistoryV3("m1", qMessage)])
    /\ UNCHANGED <<qMessage, replyVars, locateVars, threadVars, createVars,
                   configVars, simpleVars>>

FallbackInit ==
    /\ qMessage \in QuotedMessages
    /\ qOut = << >>
    /\ ReplyIdle /\ LocateIdle /\ ThreadIdle /\ CreateIdle /\ ConfigIdle
    /\ SimpleIdle

FallbackNext == ResolveQuotedV2 \/ ResolveQuotedV3

SpecFallback == FallbackInit /\ [][FallbackNext]_vars

UnknownSenderNames == {"Previous Message", "Original Sender"}

\* C25: a reply that carries non-empty quoted text resolves, without a
\* message store, to exactly one entry at depth 0 whose text is the quoted
\* text and whose sender is a placeholder; resolving again gives the same.
C25_QuotedTextIsTheOnlyEntry ==
    (qMessage.given /\ ExtractQuotedText(qMessage) # << >>) =>
        /\ \A i \in DOMAIN qOut :
             /\ Len(qOut[i].history) = 1
             /\ qOut[i].history[1].thread_depth = 0
             /\ qOut[i].history[1].message_text = ExtractQuotedText(qMessage)
             /\ qOut[i].history[1].sender_name \in UnknownSenderNames
        /\ \A i, j \in DOMAIN qOut :
             qOut[i].fn = qOut[j].fn => qOut[i].history = qOut[j].history

\* a query of the resolver was rejected by the store
StoreQueryFailed ==
    \E i \in DOMAIN tLog : tLog[i].level = "error"

\* C26: the thread resolver never raises to its caller, and it returns an
\* empty history when the store is unavailable or a store query fails.
C26_ResolverNeverRaises ==
    /\ tPc # "thrown"
    /\ (tPc = "done" /\ (~tClient \/ StoreQueryFailed)) => tResult = << >>

\* the thread query failed after the base message had been found
C26_Witness ==
    /\ tPc = "done" /\ tClient /\ tBase # ""
    /\ \E i \in DOMAIN tLog : tLog[i].message = "Failed to get thread history"
    /\ tResult = << >>

(***************************************************************************)
(* processWhatsAppMessage, the direct version: it resolves the thread of   *)
(* a reply with getThreadHistoryForReply(messageId, TARGET_GROUP_ID) and   *)
(* hands it to the analysis.  It reads and writes no sheet.                *)
(***************************************************************************)
TARGET_GROUP_ID == "g1"

SimpleResult(success, messageType, error) ==
    [success |-> success, messageType |-> messageType, error |-> error]

AnalysisError == "analysis failed"

\* if (remoteJid !== env.TARGET_GROUP_ID) return { success: true, 'ignored' }
SimpleNonTarget ==
    /\ sPc = "received" /\ sPayload.shape = "object"
    /\ sPayload.remoteJid # TARGET_GROUP_ID
    /\ sResult' = SimpleResult(TRUE, "ignored", "none")
    /\ sPc' = "done"
    /\ UNCHANGED <<sPayload, replyVars, locateVars, threadVars, createVars,
                   configVars, fallbackVars>>

\* isReplyMessage(payload): await getThreadHistoryForReply(messageId, group)
SimpleResolve ==
    /\ sPc = "received" /\ sPayload.shape = "object"
    /\ sPayload.remoteJid = TARGET_GROUP_ID
    /\ sPayload.isReply
    /\ tArgs' = [replyMessageId |-> sPayload.messageId,
                 targetGroupId |-> TARGET_GROUP_ID]
    /\ tPc' = "call"
    /\ sPc' = "resolving"
    /\ UNCHANGED <<sPayload, sResult, messages, tClient, tWork, tRows, tBase,
                   tResult, tLog, replyVars, locateVars, createVars,
                   configVars, fallbackVars>>

\* if (threadHistory.length === 0) return { success: false, 'reply', ... }
SimpleNoHistory ==
    /\ sPc = "resolving" /\ tPc = "done"
    /\ tResult = << >>
    /\ sResult' = SimpleResult(FALSE, "reply", "No thread history found")
    /\ sPc' = "done"
    /\ UNCHANGED <<sPayload, replyVars, locateVars, threadVars, createVars,
                   configVars, fallbackVars>>

\* await analyzeReplyMessage(messageText, senderName, threadHistory); a
\* rejection is answered by the catch block
SimpleReplyAnalyzed ==
    /\ sPc = "resolving" /\ tPc = "done"
    /\ tResult # << >>
    /\ \E ok \in BOOLEAN :
         sResult' = IF ok THEN SimpleResult(TRUE, "reply", "none")
                    ELSE SimpleResult(FALSE, "ignored", AnalysisError)
    /\ sPc' = "done"
    /\ UNCHANGED <<sPayload, replyVars, locateVars, threadVars, createVars,
                   configVars, fallbackVars>>

\* not a reply: await analyzeFirstMessage(messageText, senderName)
SimpleFirst ==
    /\ sPc = "received" /\ sPayload.shape = "object"
    /\ sPayload.remoteJid = TARGET_GROUP_ID
    /\ ~sPayload.isReply
    /\ \E ok \in BOOLEAN :
         sResult' = IF ok THEN SimpleResult(TRUE, "first", "none")
                    ELSE SimpleResult(FALSE, "ignored", AnalysisError)
    /\ sPc' = "done"
    /\ UNCHANGED <<sPayload, replyVars, locateVars, threadVars, createVars,
                   configVars, fallbackVars>>

\* payload null or undefined: payload.data raises a TypeError inside the try;
\* the catch block logs JSON.stringify(payload).substring(0, 200), and
\* JSON.stringify(undefined) is undefined, so .substring raises again
SimpleNoPayload ==
    /\ sPc = "received" /\ sPayload.shape \in {"null", "undefined"}
    /\ IF sPayload.shape = "undefined"
       THEN /\ sPc' = "thrown"
            /\ UNCHANGED sResult
       ELSE /\ sResult' = SimpleResult(FALSE, "ignored", "TypeError")
            /\ sPc' = "done"
    /\ UNCHANGED <<sPayload, replyVars, locateVars, threadVars, createVars,
                   configVars, fallbackVars>>

SimpleInit ==
    /\ sPayload \in [shape : {"object"}, messageId : Ids,
                     remoteJid : {"g1", "g2"}, isReply : BOOLEAN]
                    \cup [shape : {"null", "undefined"}, messageId : {""},
                          remoteJid : {""}, isReply : {FALSE}]
    /\ sPc = "received" /\ sResult = Null
    /\ messages \in MessageTables
    /\ tClient \in BOOLEAN
    /\ tArgs = [replyMessageId |-> "", targetGroupId |-> ""]
    /\ tPc = "idle"
    /\ tWork = {} /\ tRows = {} /\ tBase = "" /\ tResult = << >>
    /\ tLog = << >>
    /\ ReplyIdle /\ LocateIdle /\ CreateIdle /\ ConfigIdle /\ FallbackIdle

SimpleNext ==
    \/ SimpleNonTarget \/ SimpleResolve \/ SimpleNoHistory
    \/ SimpleReplyAnalyzed \/ SimpleFirst \/ SimpleNoPayload
    \/ NoClient \/ FindBaseQueryFails \/ FindBaseAnchor \/ FindBaseStep
    \/ FindBaseAborts \/ FindBaseEmpty \/ FindBaseFound
    \/ ReturnThreadHistory \/ ThreadHistoryQueryFails

SpecSimple == SimpleInit /\ [][SimpleNext]_vars

\* C27: a reply without a backing thread store and without quoted content
\* has an empty thread history and ends as ignored, with no store write and
\* no audit entry.
C27_NoContextReplyIsIgnored ==
    (/\ sPc = "done"
     /\ sPayload.isReply /\ sPayload.remoteJid = TARGET_GROUP_ID
     /\ ~tClient) =>
        /\ tResult = << >>
        /\ sResult.success = TRUE
        /\ sResult.messageType = "ignored"
        /\ sheet = << >> /\ auditLog = << >>

(***************************************************************************)
(* WorkOrderProcessor.processReplyMessage: the same steps on the sheet as  *)
(* processReplyMessage, with its own results for the early exits and for   *)
(* the catch block.                                                        *)
(***************************************************************************)
\* { success: false, messageType: 'reply', error }
WoFailure(error) == [success |-> FALSE, messageType |-> "reply", error |-> error]

\* no quoted message content in the reply
WoNoQuotedContent(p) ==
    /\ pc[p] = "received"
    /\ Done(p, WoFailure("No quoted message content found in reply"))
    /\ UNCHANGED <<sheet, auditLog, workId, sheetData, replyAnalysis,
                   columnUpdates, calls, uPc, payload, locateVars, threadVars,
                   createVars, configVars, simpleVars, fallbackVars>>

\* analyzeMessage on the quoted text; '' when no work_id is found
WoAnalyzeQuoted(p) ==
    /\ pc[p] = "received"
    /\ \E id \in WorkIds \cup { << >> } :
         IF ~Truthy(id)
         THEN /\ Done(p, WoFailure("No work_id found in quoted message analysis"))
              /\ UNCHANGED workId
         ELSE /\ workId' = [workId EXCEPT ![p] = id]
              /\ pc' = [pc EXCEPT ![p] = "lookup"]
              /\ UNCHANGED result
    /\ UNCHANGED <<sheet, auditLog, sheetData, replyAnalysis, columnUpdates,
                   calls, uPc, payload, locateVars, threadVars, createVars,
                   configVars, simpleVars, fallbackVars>>

\* getSheetRowByWorkId rejects; the catch block answers
WoLookupFails(p) ==
    /\ pc[p] = "lookup"
    /\ calls' = Append(calls, Call(p, "read", FALSE))
    /\ Done(p, WoFailure(ReadError))
    /\ UNCHANGED <<sheet, auditLog, workId, sheetData, replyAnalysis,
                   columnUpdates, uPc, payload, locateVars, threadVars,
                   createVars, configVars, simpleVars, fallbackVars>>

\* if (!sheetData) return { success: false, messageType: 'reply', ... }
WoLookupNotFound(p) ==
    /\ pc[p] = "lookup"
    /\ GetSheetRowByWorkId(GetSheetData(sheet), workId[p]) = Null
    /\ calls' = Append(calls, Call(p, "read", TRUE))
    /\ Done(p, WoFailure("Work order not found in sheet"))
    /\ UNCHANGED <<sheet, auditLog, workId, sheetData, replyAnalysis,
                   columnUpdates, uPc, payload, locateVars, threadVars,
                   createVars, configVars, simpleVars, fallbackVars>>

\* updateSheetRowByIndices rejects; the catch block answers
WoWriteFails(p) ==
    /\ pc[p] = "write"
    /\ calls' = Append(calls, Call(p, "write", FALSE))
    /\ Done(p, WoFailure(WriteError))
    /\ UNCHANGED <<sheet, auditLog, workId, sheetData, replyAnalysis,
                   columnUpdates, uPc, payload, locateVars, threadVars,
                   createVars, configVars, simpleVars, fallbackVars>>

WoStep(p) ==
    \/ WoNoQuotedContent(p)
    \/ WoAnalyzeQuoted(p)
    \/ WoLookupFails(p)
    \/ WoLookupNotFound(p)
    \/ LookupFound(p)
    \/ AnalyzeReply(p)
    \/ WriteOk(p)
    \/ WoWriteFails(p)
    \/ AuditAndReturn(p)

WorkOrderNext == \E p \in Procs : WoStep(p)

SpecWorkOrder == Init /\ [][WorkOrderNext]_vars

\* the reply ended because no identifier was found for it
NoIdentifierOutcome(p) == pc[p] = "done" /\ ~Truthy(workId[p])

\* the reply ended because the sheet holds no record of its identifier
NotFoundOutcome(p) ==
    /\ pc[p] = "done" /\ Truthy(workId[p])
    /\ Made(p, "read", TRUE) /\ sheetData[p] = Null

\* C28: a reply that ends because no identifier was found, or because no
\* record has its identifier, is reported as a successful 'ignored' result.
C28_NotFoundAndNoIdentifierAreIgnored ==
    \A p \in Procs :
        (NoIdentifierOutcome(p) \/ NotFoundOutcome(p)) =>
            /\ result[p].success = TRUE
            /\ result[p].messageType = "ignored"

(***************************************************************************)
(* updateSheetRow against a sheet whose columns were reordered             *)
(***************************************************************************)
Swap(a, b) ==
    [j \in 1..NumCols |-> IF j = a THEN b ELSE IF j = b THEN a ELSE j]

\* orders of the columns: as created, notes and job status exchanged,
\* deposit and total price exchanged
ColumnOrders == { Swap(1, 1), Swap(13, 14), Swap(10, 11) }

PermuteRow(row, order) == [j \in 1..NumCols |-> row[order[j]]]

PermutedSheets ==
    { [i \in DOMAIN g |-> PermuteRow(g[i], order)] :
        g \in InitSheets, order \in ColumnOrders }

PermutedInit ==
    /\ sheet \in PermutedSheets
    /\ auditLog = << >>
    /\ pc = [p \in Procs |-> "done"]
    /\ workId = [p \in Procs |-> << >>]
    /\ sheetData = [p \in Procs |-> Null]
    /\ replyAnalysis = [p \in Procs |-> NoAnalysis]
    /\ columnUpdates = [p \in Procs |-> << >>]
    /\ result = [p \in Procs |-> Null]
    /\ calls = << >>
    /\ uPc = 0
    /\ payload = DistinctPayloads
    /\ LocateIdle /\ ThreadIdle /\ CreateIdle /\ ConfigIdle /\ SimpleIdle /\ FallbackIdle

SpecPermuted == PermutedInit /\ [][UpdateNext]_vars

\* the header that names a field of the update
HeaderNaming ==
    [notes |-> "notes", job_status |-> "job status",
     deposit |-> "deposit", total_price |-> "total price"]

\* C29: whatever the order of the sheet's columns, the value of an updated
\* field stands, after the update, in the column whose header names the field.
C29_FieldLandsUnderItsHeader ==
    (calls # << >> /\ calls[Len(calls)].op = "batchUpdate" /\ calls[Len(calls)].ok) =>
        LET c == calls[Len(calls)] IN
        \A k \in DOMAIN c.updates :
            (c.updates[k][2] # UndefVal /\ c.updates[k][1] \in DOMAIN HeaderNaming) =>
                sheet[c.rowNumber]
                     [ColumnIndices(sheet[1])[HeaderNaming[c.updates[k][1]]] + 1]
                    = StringOf(c.updates[k][2])

\* C30: when the same inbound message (same message id) is delivered twice,
\* the second delivery changes nothing: at most one of the two deliveries
\* writes the record and at most one appends an audit entry.
C30_RedeliveryHasNoFurtherEffect ==
    \A p, q \in Procs :
        (p # q /\ payload[p].messageId = payload[q].messageId) =>
            /\ ~(Made(p, "write", TRUE) /\ Made(q, "write", TRUE))
            /\ ~(Made(p, "append", TRUE) /\ Made(q, "append", TRUE))

\* C40: after an update batch of several fields went through, every field
\* of the batch has its own value in the column the map gives it: no field
\* of the batch overwrote another.
C40_NoFieldOverwritesAnother ==
    (calls # << >> /\ calls[Len(calls)].op = "batchUpdate" /\ calls[Len(calls)].ok) =>
        LET c == calls[Len(calls)] IN
        \A k \in ValidEntries(c.updates) :
            sheet[c.rowNumber][ColumnIndexOf(c.updates[k][1]) + 1]
                = StringOf(c.updates[k][2])

\* C31: whatever the payload (null and undefined included),
\* processWhatsAppMessage does not raise, and the result it returns has a
\* boolean success and a messageType among first, reply and ignored.
C31_AlwaysAResultNeverThrows ==
    /\ sPc # "thrown"
    /\ sPc = "done" =>
         /\ sResult.success \in BOOLEAN
         /\ sResult.messageType \in {"first", "reply", "ignored"}

(***************************************************************************)
(* POST /whatsapp/messages-upsert: the route calls processWhatsAppMessage  *)
(* (simpleMessageProcessor.ts), which filters, logs the message and hands  *)
(* it to processReplyMessage (task t1) or processFirstMessage; when the    *)
(* result is a failure the route adds the message as a basic row.          *)
(* logMessage is not part of the sources: it either resolves, the entry    *)
(* written, or rejects.                                                    *)
(***************************************************************************)
WebhookPayloads ==
    [shape : {"object"}, messageId : {"m1"}, remoteJid : {"g1", "g2"},
     hasText : BOOLEAN, isReply : BOOLEAN]
    \cup [shape : {"noData"}, messageId : {""}, remoteJid : {""},
          hasText : {FALSE}, isReply : {FALSE}]

\* the catch block of processWhatsAppMessage
RouterFailure(error) == [success |-> FALSE, messageType |-> "ignored", error |-> error]

\* { data: null }: payload.data.key raises inside the try
RouterMalformed ==
    /\ sPc = "received" /\ sPayload.shape = "noData"
    /\ sResult' = RouterFailure("TypeError")
    /\ sPc' = "returned"
    /\ UNCHANGED <<sPayload, replyVars, createVars, locateVars, threadVars, configVars, fallbackVars>>

\* mutant: the message is logged before the group is checked
RouterNonTargetLogsFirst ==
    /\ sPc = "received" /\ sPayload.shape = "object"
    /\ sPayload.remoteJid # TARGET_GROUP_ID
    /\ calls' = Append(calls, Call("r", "log", TRUE))
    /\ sResult' = [success |-> TRUE, messageType |-> "ignored",
                   error |-> "Message not from target group"]
    /\ sPc' = "returned"
    /\ UNCHANGED <<sPayload, sheet, auditLog, pc, workId, sheetData,
                   replyAnalysis, columnUpdates, result, uPc, payload,
                   createVars, locateVars, threadVars, configVars, fallbackVars>>

\* Step 2: if (!validateTargetGroup(remoteJid)) return ignored
RouterNonTarget ==
    /\ sPc = "received" /\ sPayload.shape = "object"
    /\ sPayload.remoteJid # TARGET_GROUP_ID
    /\ sResult' = [success |-> TRUE, messageType |-> "ignored",
                   error |-> "Message not from target group"]
    /\ sPc' = "returned"
    /\ UNCHANGED <<sPayload, replyVars, createVars, locateVars, threadVars, configVars, fallbackVars>>

\* Step 3: validateMessageText throws when the message has no text
RouterNoText ==
    /\ sPc = "received" /\ sPayload.shape = "object"
    /\ sPayload.remoteJid = TARGET_GROUP_ID
    /\ ~sPayload.hasText
    /\ sResult' = RouterFailure("No text content found in message")
    /\ sPc' = "returned"
    /\ UNCHANGED <<sPayload, replyVars, createVars, locateVars, threadVars, configVars, fallbackVars>>

\* Steps 4-5: await logMessage(...), then the processor of the message starts
RouterLogged ==
    /\ sPc = "received" /\ sPayload.shape = "object"
    /\ sPayload.remoteJid = TARGET_GROUP_ID
    /\ sPayload.hasText
    /\ calls' = Append(calls, Call("r", "log", TRUE))
    /\ IF sPayload.isReply
       THEN /\ pc' = [pc EXCEPT !["t1"] = "received"]
            /\ UNCHANGED <<cPc, cSender>>
       ELSE /\ cPc' = "received"
            /\ cSender' = SenderName["t1"]
            /\ UNCHANGED pc
    /\ sPc' = "processing"
    /\ UNCHANGED <<sPayload, sResult, sheet, auditLog, workId, sheetData,
                   replyAnalysis, columnUpdates, result, uPc, payload,
                   cOrder, cResult, locateVars, threadVars, configVars, fallbackVars>>

\* Step 4: logMessage rejects; the catch block answers
RouterLogFails ==
    /\ sPc = "received" /\ sPayload.shape = "object"
    /\ sPayload.remoteJid = TARGET_GROUP_ID
    /\ sPayload.hasText
    /\ calls' = Append(calls, Call("r", "log", FALSE))
    /\ sResult' = RouterFailure("Failed to append data to Google Sheet")
    /\ sPc' = "returned"
    /\ UNCHANGED <<sPayload, sheet, auditLog, pc, workId, sheetData,
                   replyAnalysis, columnUpdates, result, uPc, payload,
                   createVars, locateVars, threadVars, configVars, fallbackVars>>

\* return await processReplyMessage(...) / processFirstMessage(...)
RouterReturn ==
    /\ sPc = "processing"
    /\ IF sPayload.isReply
       THEN pc["t1"] = "done" /\ sResult' = result["t1"]
       ELSE cPc = "done" /\ sResult' = cResult
    /\ sPc' = "returned"
    /\ UNCHANGED <<sPayload, replyVars, createVars, locateVars, threadVars, configVars, fallbackVars>>

\* the route: result.success, the response is sent
WebhookRespond ==
    /\ sPc = "returned" /\ sResult.success
    /\ sPc' = "responded"
    /\ UNCHANGED <<sPayload, sResult, replyVars, createVars, locateVars, threadVars, configVars, fallbackVars>>

\* the OrderData addMessageToDepositSheet builds for a basic row
BasicOrderData(senderName) ==
    [work_id |-> <<"MSG_now">>, customer_name |-> senderName, address |-> << >>,
     deposit |-> 0, job_status |-> <<"new">>, notes |-> << >>,
     created_at |-> <<"now">>, updated_at |-> <<"now">>,
     created_by |-> senderName, updated_by |-> senderName]

\* addMessageToDepositSheet(webhookData): answers false without a write for a
\* payload without data, of another group or without text; otherwise calls
\* createNewOrder (row append, then CREATE audit entry) and answers false when
\* that rejects. It never rejects itself.
AddMessageToDepositSheet ==
    IF sPayload.shape # "object" \/ sPayload.remoteJid # TARGET_GROUP_ID
       \/ ~sPayload.hasText
    THEN UNCHANGED <<sheet, auditLog, calls>>
    ELSE \E rowOk, auditOk \in BOOLEAN :
         LET order == BasicOrderData(SenderName["t1"]) IN
         /\ sheet' = IF rowOk
                     THEN Append(sheet, PrepareOrderDataForSheet(order, MessageText["t1"]))
                     ELSE sheet
         /\ auditLog' = IF rowOk /\ auditOk
                        THEN Append(auditLog, CreateLogRow(order))
                        ELSE auditLog
         /\ calls' = IF rowOk
                     THEN calls \o <<Call("f", "appendRow", TRUE),
                                     Call("f", "append", auditOk)>>
                     ELSE Append(calls, Call("f", "appendRow", FALSE))

\* the route: !result.success, await addMessageToDepositSheet(req.body); then
\* the response is sent
WebhookFallback ==
    /\ sPc = "returned" /\ ~sResult.success
    /\ AddMessageToDepositSheet
    /\ sPc' = "responded"
    /\ UNCHANGED <<sPayload, sResult, pc, workId, sheetData, replyAnalysis,
                   columnUpdates, result, uPc, payload, createVars, locateVars, threadVars, configVars, fallbackVars>>

WebhookInit ==
    /\ sheet \in InitSheets
    /\ auditLog = << >>
    /\ pc = [p \in Procs |-> "done"]
    /\ workId = [p \in Procs |-> << >>]
    /\ sheetData = [p \in Procs |-> Null]
    /\ replyAnalysis = [p \in Procs |-> NoAnalysis]
    /\ columnUpdates = [p \in Procs |-> << >>]
    /\ result = [p \in Procs |-> Null]
    /\ calls = << >>
    /\ uPc = 0
    /\ payload = DistinctPayloads
    /\ sPc = "received" /\ sResult = Null
    /\ sPayload \in WebhookPayloads
    /\ LocateIdle /\ ThreadIdle /\ CreateIdle /\ ConfigIdle /\ FallbackIdle

WebhookNext ==
    \/ RouterMalformed \/ RouterNonTarget \/ RouterNoText
    \/ RouterLogged \/ RouterLogFails \/ RouterReturn
    \/ ReplyStep("t1")
    \/ FirstAnalyze \/ CreateRowAppended \/ CreateRowAppendFails
    \/ CreateAudited \/ CreateAuditFails
    \/ WebhookRespond \/ WebhookFallback

SpecWebhook == WebhookInit /\ [][WebhookNext]_vars

(***************************************************************************)
(* The error handlers with the basic-entry fallback                        *)
(***************************************************************************)

\* the handler was called without webhookData
NoWebhookData ==
    [shape |-> "undefined", messageId |-> "", remoteJid |-> "",
     hasText |-> FALSE, isReply |-> FALSE]

\* the result after `await addMessageToDepositSheet(webhookData)` resolved
FallbackLogged(error) ==
    [success |-> TRUE, messageType |-> "ignored", fallbackUsed |-> TRUE,
     error |-> error]

\* the result when no fallback was tried or the awaited call rejected
HandlerFailure(error) ==
    [success |-> FALSE, messageType |-> "ignored", error |-> error]

\* handleProcessingError(error, context, webhookData)
HandleProcessingError ==
    /\ sPc = "processingError"
    /\ IF sPayload.shape = "undefined"
       THEN /\ sResult' = HandlerFailure("error")
            /\ UNCHANGED <<sheet, auditLog, calls>>
       ELSE /\ AddMessageToDepositSheet
            /\ sResult' = FallbackLogged("Processing failed, logged as basic entry: error")
    /\ sPc' = "done"
    /\ UNCHANGED <<sPayload, pc, workId, sheetData, replyAnalysis,
                   columnUpdates, result, uPc, payload, createVars, locateVars,
                   threadVars, configVars, fallbackVars>>

\* handleValidationError(error, context, webhookData)
HandleValidationError ==
    /\ sPc = "validationError"
    /\ IF sPayload.shape = "undefined"
       THEN /\ sResult' = HandlerFailure("error")
            /\ UNCHANGED <<sheet, auditLog, calls>>
       ELSE /\ AddMessageToDepositSheet
            /\ sResult' = FallbackLogged("Validation failed, logged as basic entry: error")
    /\ sPc' = "done"
    /\ UNCHANGED <<sPayload, pc, workId, sheetData, replyAnalysis,
                   columnUpdates, result, uPc, payload, createVars, locateVars,
                   threadVars, configVars, fallbackVars>>

RecoverInit ==
    /\ sheet \in InitSheets
    /\ auditLog = << >>
    /\ pc = [p \in Procs |-> "done"]
    /\ workId = [p \in Procs |-> << >>]
    /\ sheetData = [p \in Procs |-> Null]
    /\ replyAnalysis = [p \in Procs |-> NoAnalysis]
    /\ columnUpdates = [p \in Procs |-> << >>]
    /\ result = [p \in Procs |-> Null]
    /\ calls = << >>
    /\ uPc = 0
    /\ payload = DistinctPayloads
    /\ sPc \in {"processingError", "validationError"} /\ sResult = Null
    /\ sPayload \in WebhookPayloads \cup {NoWebhookData}
    /\ LocateIdle /\ ThreadIdle /\ CreateIdle /\ ConfigIdle /\ FallbackIdle

RecoverNext == HandleProcessingError \/ HandleValidationError

SpecRecover == RecoverInit /\ [][RecoverNext]_vars

\* C33: when a handler was given the raw payload, its result is success with
\* fallbackUsed exactly when the basic row of the fallback was written, and
\* it is a failure when that write failed or was not made.
C33_SuccessOnlyWhenFallbackWritten ==
    (sPc = "done" /\ sPayload.shape # "undefined") =>
        /\ (sResult.success /\ "fallbackUsed" \in DOMAIN sResult)
              <=> Made("f", "appendRow", TRUE)
        /\ ~Made("f", "appendRow", TRUE) => ~sResult.success

\* C32: a message of another group than the target group is answered as
\* ignored with success, and nothing is written for it: no message-log entry,
\* no record row or cell, no audit entry.
C32_NonTargetGroupTouchesNothing ==
    (sPayload.shape = "object" /\ sPayload.remoteJid # TARGET_GROUP_ID) =>
        /\ calls = << >>
        /\ auditLog = << >>
        /\ sheet \in InitSheets
        /\ sPc \in {"returned", "responded"} =>
              sResult.success = TRUE /\ sResult.messageType = "ignored"

C32_Witness ==
    /\ sPayload.shape = "object" /\ sPayload.remoteJid # TARGET_GROUP_ID
    /\ sPc = "responded"
    /\ sResult.messageType = "ignored" /\ calls = << >>

\* C36: whatever the outcome of a reply, the record sheet has no more rows
\* after it was processed than before.
C36_ReplyAddsNoRow ==
    (sPayload.shape = "object" /\ sPayload.isReply) =>
        \A g \in InitSheets : Len(sheet) = Len(g)

\* C38: for a message of the target group that has text, a record row is
\* created or updated, or an audit entry appended, only after the
\* message-log entry was written.
C38_MessageLoggedBeforeAnyWrite ==
    (/\ sPayload.shape = "object" /\ sPayload.remoteJid = TARGET_GROUP_ID
     /\ sPayload.hasText) =>
        \A i \in DOMAIN calls :
            (calls[i].op \in {"write", "appendRow", "append"} /\ calls[i].ok) =>
                \E j \in 1..(i - 1) : calls[j] = Call("r", "log", TRUE)

\* C34: each UPDATE audit entry is one appended row of exactly six values:
\* the identifier of the reply's record, the operation 'UPDATE', the
\* description 'Fields changed: ' followed by the changed field names, the
\* timestamp, the actor 'system' and the JSON text of the new values; one row
\* per append that succeeded.
C34_UpdateEntryIsSixValues ==
    /\ Len(auditLog) = Cardinality({i \in DOMAIN calls :
                                      calls[i].op = "append" /\ calls[i].ok})
    /\ \A i \in DOMAIN auditLog :
         LET r == auditLog[i] IN
         /\ Len(r) = 6
         /\ \E p \in Procs :
              LET f == AuditFields(sheetData[p], MessageText[p], replyAnalysis[p]) IN
              /\ Made(p, "append", TRUE)
              /\ r[1] = workId[p]
              /\ r[2] = <<"UPDATE">>
              /\ r[3] = <<"Fields changed: ">> \o Join(f.changedFields)
              /\ r[4] = <<"now">>
              /\ r[5] = <<"system">>
              /\ r[6] = JsonStringify(f.newValues)
              /\ Head(r[6]) = "{" /\ r[6][Len(r[6])] = "}"

\* an entry that lists a second field next to the notes
C34_Witness ==
    \E i \in DOMAIN auditLog :
        /\ auditLog[i][2] = <<"UPDATE">>
        /\ Len(auditLog[i][3]) > 2
        /\ Len(auditLog[i]) = 6
StandaloneResult(p) ==
    IF ~Truthy(workId[p]) THEN HandleErrorCase("missing_content")
    ELSE IF Made(p, "read", FALSE) THEN HandleNetworkError(ReadError)
    ELSE IF sheetData[p] = Null THEN HandleErrorCase("not_found")
    ELSE IF Made(p, "write", FALSE) THEN HandleNetworkError(WriteError)
    ELSE ReplySuccess

\* C37: for every reply, store state and extraction result, the reply step of
\* the WorkOrderProcessor ends with the success flag and the message type the
\* standalone processReplyMessage returns for the same path, having made the
\* same store writes and audit appends (none before the row is found, at most
\* one of each after it).
C37_SameResultAsStandalone ==
    \A p \in Procs :
        pc[p] = "done" =>
            /\ result[p].success = StandaloneResult(p).success
            /\ result[p].messageType = StandaloneResult(p).messageType
            /\ (sheetData[p] = Null =>
                    \A i \in CallsOf(p) : calls[i].op = "read")
            /\ Cardinality({i \in CallsOf(p) : calls[i].op = "write"}) <= 1
            /\ Cardinality({i \in CallsOf(p) : calls[i].op = "append"}) <= 1
\* the extraction step of task p failed or answered text that does not parse:
\* the analysis is the fallback without column updates
ExtractionFailed(p) == sheetData[p] # Null /\ replyAnalysis[p] = NoAnalysis

====
